---- MODULE Spec2Model ----
(***************************************************************************)
(* A state-machine model of irisreader's virtual multi-file data cube      *)
(* (iris_data_cube, sji_cube) and of its coordinate adapter                *)
(* (iris_coordinates).                                                     *)
(*                                                                         *)
(* Python values are modelled as follows.  An attribute that may be None   *)
(* is the empty tuple <<>> when it is None and the one-element tuple <<v>> *)
(* when it holds v.  Python indices (file numbers, file steps, global      *)
(* steps, pixels, extension numbers) keep their 0-based values; a Python   *)
(* list or array l is a TLA+ sequence, so l[i] is written At(l, i).        *)
(* Strings that the code searches (the line identifier, the window         *)
(* descriptors) are sequences of characters.  A FITS file is a record of   *)
(* its primary-header fields and of its sequence of extensions.            *)
(***************************************************************************)
EXTENDS Integers, Sequences, FiniteSets, TLC

\* ------------------------------------------------------------------ bounds
\* longest file list handed to the constructor
MaxFiles == 2
\* number of _remove_steps calls in one behaviour
MaxRemovals == 1
\* number of times one lazy loader is entered in one behaviour
MaxRuns == 2
\* extent of a frame along y (rows) and x (columns)
NY == 2
NX == 3

\* ------------------------------------------------------- Python helpers
None == <<>>
Some(v) == <<v>>
IsNone(o) == Len(o) = 0
Val(o) == o[1]
At(l, i) == l[i + 1]
Range0(n) == 0 .. (n - 1)
Min(a, b) == IF a < b THEN a ELSE b
Max(a, b) == IF a < b THEN b ELSE a

\* a in b for Python strings: a occurs in b as a contiguous substring
IsSubstr(a, b) ==
    \E i \in 0 .. (Len(b) - Len(a)) : SubSeq(b, i + 1, i + Len(a)) = a

\* the null sentinel of a frame without signal
NullValue == -200

\* ------------------------------------------------------------ the files
\* The kinds of file the lists are drawn from.  SJI-layout files hold the
\* data cube in extension 0, the metadata table in extension 1 and a text
\* table in extension 2; raster-layout files hold an empty primary
\* extension, two spectral windows, the metadata table and the text table.
SjiKinds == {"sji", "sji_null", "sji_cols", "sji_flat", "sji_tab", "sji_blank",
             "sji_aia", "sji_text"}
RasterKinds == {"ras", "ras_line", "ras_sji"}
FileKinds == SjiKinds \cup RasterKinds

\* per frame of the selected data: "data", "null" (all samples -200) or
\* "part" (first row -200, the rest signal)
Frames(kind) ==
    CASE kind = "sji"      -> <<"data", "null", "part">>
      [] kind = "sji_null" -> <<"null", "null">>
      [] kind = "ras"      -> <<"part", "data">>
      [] OTHER             -> <<"data", "data">>

\* an integer that tells the kinds' samples apart
KindBase(kind) ==
    CASE kind = "sji"      -> 0
      [] kind = "sji_null" -> 100
      [] kind = "sji_cols" -> 200
      [] kind = "sji_flat" -> 300
      [] kind = "sji_tab"  -> 400
      [] kind = "ras"      -> 500
      [] kind = "ras_line" -> 600
      [] kind = "ras_sji"  -> 700
      [] kind = "sji_aia"  -> 900
      [] kind = "sji_text" -> 1000
      [] OTHER             -> 800

\* sample (y, x) of frame s of data extension e of a file of this kind
Sample(kind, e, s, y, x) ==
    LET signal == IF y = NY - 1 /\ x = NX - 1
                  THEN 0
                  ELSE KindBase(kind) + 50 * e + 2 * (1 + x + NX * y + NX * NY * s)
    IN  CASE At(Frames(kind), s) = "null" -> NullValue
          [] At(Frames(kind), s) = "part" -> IF y = 0 THEN NullValue ELSE signal
          [] OTHER                        -> signal

\* a three-dimensional data extension and its frames
ImageExt(kind, e) ==
    [hasShape |-> TRUE,
     shape    |-> <<Len(Frames(kind)), NY, NX>>,
     nkeys    |-> 0,
     data     |-> [s \in Range0(Len(Frames(kind))) |->
                    [y \in Range0(NY) |-> [x \in Range0(NX) |->
                        Sample(kind, e, s, y, x)]]]]
\* a two-dimensional image where a data cube is expected
FlatExt ==
    [hasShape |-> TRUE, shape |-> <<NY, NX>>, nkeys |-> 0, data |-> <<>>]
\* an extension without data (the primary extension of a raster file)
EmptyExt ==
    [hasShape |-> TRUE, shape |-> <<>>, nkeys |-> 0, data |-> <<>>]
\* the metadata table: rows x cols values, nkeys non-structural header keys
TableExt(rows, cols, nkeys) ==
    [hasShape |-> TRUE, shape |-> <<rows, cols>>, nkeys |-> nkeys, data |-> <<>>]
\* a metadata extension that is not a two-dimensional table
VectorExt(cols) ==
    [hasShape |-> TRUE, shape |-> <<cols>>, nkeys |-> cols, data |-> <<>>]
\* the trailing text table, which has no shape attribute
TextExt ==
    [hasShape |-> FALSE, shape |-> <<>>, nkeys |-> 0, data |-> <<>>]

\* the columns of a well-formed metadata table
TableKeys == {"TIME", "EXPTIMES", "XCENIX"}
TableCols == Cardinality(TableKeys)

\* elapsed time TIME of row s in microseconds, and its exposure time
RowTime(kind, s) == 1500500 * s
RowExptime(kind, s) == 1 + ((s + 1) % 2)

\* the rows of the metadata table as the Tabular Header Decoder returns them
TableRows(kind) ==
    [s \in 1 .. Len(Frames(kind)) |->
        [TIME |-> RowTime(kind, s - 1), EXPTIMES |-> RowExptime(kind, s - 1),
         XCENIX |-> KindBase(kind) + s - 1]]

\* the window descriptors TDESC1, TDESC2, ... of the primary header
WinC == <<"C", " ", "I", "I">>
WinMg == <<"M", "g", " ", "I", "I">>
WinSi == <<"S", "i", " ", "I", "V">>
WinSji == <<"S", "J", "I", "_", "1", "4", "0", "0">>

\* A header string that holds a date is the instant it names, in
\* microseconds; a blank header string is Blank.
DateStr(t) == [text |-> "date", t |-> t]
Blank == [text |-> "blank", t |-> 0]
StartObs == DateStr(3 * 1000000)

\* A physical quantity is a decimal number m * 10^e.
Dec(m, e) == [m |-> m, e |-> e]

\* the world-coordinate fields of the selected extension's header; CDELT3 is
\* a decimal, as the constructor of iris_coordinates writes 1e-10 into it
WcsHeader(kind) ==
    [CTYPE1 |-> IF kind \in RasterKinds THEN "WAVE" ELSE "HPLN-TAN",
     CRPIX1 |-> 1, CRVAL1 |-> 10, CDELT1 |-> 2,
     CRPIX2 |-> 1, CRVAL2 |-> 20, CDELT2 |-> 3,
     CRPIX3 |-> 1, CRVAL3 |-> 0,
     CDELT3 |-> Dec(IF kind \in RasterKinds THEN 1 ELSE 0, 0)]

\* the primary header fields the cube reads
Primary(kind, instrume, tdesc) ==
    [INSTRUME |-> instrume, TDESC |-> tdesc,
     STARTOBS |-> IF kind = "sji_blank" THEN Blank ELSE StartObs,
     XCEN |-> KindBase(kind) + 50,
     SAA |-> <<" ", "I", "N", " ">>, NAXIS |-> 3]

File(kind) ==
    LET n == Len(Frames(kind))
        sjiLayout(tab) == <<ImageExt(kind, 0), tab, TextExt>>
        rasLayout == <<EmptyExt, ImageExt(kind, 1), ImageExt(kind, 2),
                       TableExt(n, TableCols, TableCols), TextExt>>
    IN  CASE kind = "sji_cols" ->
               [header |-> Primary(kind, "SJI", <<WinSji>>),
                wcs |-> WcsHeader(kind), ext |-> sjiLayout(TableExt(n, TableCols + 1, TableCols))]
          [] kind = "sji_flat" ->
               [header |-> Primary(kind, "SJI", <<WinSji>>),
                wcs |-> WcsHeader(kind), ext |-> <<FlatExt, TableExt(n, TableCols, TableCols), TextExt>>]
          [] kind = "sji_tab" ->
               [header |-> Primary(kind, "SJI", <<WinSji>>),
                wcs |-> WcsHeader(kind), ext |-> sjiLayout(VectorExt(TableCols))]
          [] kind = "sji_aia" ->
               [header |-> Primary(kind, "AIA", <<WinSji>>),
                wcs |-> WcsHeader(kind), ext |-> sjiLayout(TableExt(n, TableCols, TableCols))]
          [] kind = "sji_text" ->
               [header |-> Primary(kind, "SJI", <<WinSji>>),
                wcs |-> WcsHeader(kind), ext |-> <<ImageExt(kind, 0), TextExt, TextExt>>]
          [] kind \in {"sji", "sji_null", "sji_blank"} ->
               [header |-> Primary(kind, "SJI", <<WinSji>>),
                wcs |-> WcsHeader(kind), ext |-> sjiLayout(TableExt(n, TableCols, TableCols))]
          [] kind = "ras" ->
               [header |-> Primary(kind, "SPEC", <<WinC, WinMg>>),
                wcs |-> WcsHeader(kind), ext |-> rasLayout]
          [] kind = "ras_line" ->
               [header |-> Primary(kind, "SPEC", <<WinSi, WinC>>),
                wcs |-> WcsHeader(kind), ext |-> rasLayout]
          [] OTHER ->
               [header |-> Primary(kind, "SJI", <<WinC, WinMg>>),
                wcs |-> WcsHeader(kind), ext |-> rasLayout]

\* ------------------------------------------------------------- the state
VARIABLES
    arg,     \* the constructor's arguments: files, line, keep_null, cls
    phase,   \* "new" before construction, then "ready" or "failed"
    cube,    \* the attributes of the iris_data_cube / sji_cube instance
    ico,     \* the attributes of its iris_coordinates instance (cube._ico)
    hub,     \* the file numbers ir.file_hub holds open
    warned,  \* the warnings emitted through warnings.warn
    runs,    \* how often each lazy loader has been entered
    removals,\* how many _remove_steps calls were made
    ret      \* the last call: its name, its arguments, its result or exception

vars == <<arg, phase, cube, ico, hub, warned, runs, removals, ret>>

\* the file behind file number file_no of the list
FileAt(file_no) == File(At(arg.files, file_no))

Loaders == {"valid_steps", "primary", "time_specific", "line_specific", "combined"}

\* ----------------------------------------------------------- file hub
\* ir.file_hub.open(path): the file is open afterwards, once, however often
\* it has been requested
HubOpen(h, file_no) == h \cup {file_no}
\* ir.file_hub.close(path)
HubClose(h, file_no) == h \ {file_no}

\* ---------------------------------------------------- integrity check
\* header['TDESC' + str(i)]: present for the windows 1 .. Len(TDESC)
HasTdesc(f, i) == i \in 1 .. Len(f.header.TDESC)

\* a faulty integrity check that lacks the last test, the one that compares
\* the table's column count with the number of header keys
CheckIntegrityNoColumns(f, line, selected_ext, n_ext) ==
    IF f.header.INSTRUME = "SPEC" /\ ~(selected_ext \in 1 .. Len(f.header.TDESC))
    THEN "KeyError"
    ELSE IF f.header.INSTRUME = "SPEC"
            /\ ~IsSubstr(line, f.header.TDESC[selected_ext])
    THEN "corrupt: line"
    ELSE IF selected_ext >= Len(f.ext)
    THEN "IndexError"
    ELSE IF ~At(f.ext, selected_ext).hasShape
    THEN "AttributeError"
    ELSE IF Len(At(f.ext, selected_ext).shape) # 3
    THEN "corrupt: data"
    ELSE IF n_ext - 2 < 0 \/ n_ext - 2 >= Len(f.ext)
    THEN "IndexError"
    ELSE IF ~At(f.ext, n_ext - 2).hasShape
    THEN "AttributeError"
    ELSE IF Len(At(f.ext, n_ext - 2).shape) # 2
    THEN "corrupt: table"
    ELSE "ok"

\* iris_data_cube._check_integrity( hdu ): "ok", the CorruptFITSException
\* raised ("corrupt: ..."), or the other exception the lookups raise
CheckIntegrity(f, line, selected_ext, n_ext) ==
    LET tab == n_ext - 2
    IN  IF f.header.INSTRUME = "SPEC" /\ ~HasTdesc(f, selected_ext)
        THEN "KeyError"
        ELSE IF f.header.INSTRUME = "SPEC"
                /\ ~IsSubstr(line, f.header.TDESC[selected_ext])
        THEN "corrupt: line"
        ELSE IF selected_ext >= Len(f.ext)
        THEN "IndexError"
        ELSE IF ~At(f.ext, selected_ext).hasShape
        THEN "AttributeError"
        ELSE IF Len(At(f.ext, selected_ext).shape) # 3
        THEN "corrupt: data"
        ELSE IF tab < 0 \/ tab >= Len(f.ext)
        THEN "IndexError"
        ELSE IF ~At(f.ext, tab).hasShape
        THEN "AttributeError"
        ELSE IF Len(At(f.ext, tab).shape) # 2
        THEN "corrupt: table"
        ELSE IF At(f.ext, tab).shape[2] # At(f.ext, tab).nkeys
        THEN "corrupt: columns"
        ELSE "ok"

IsCorrupt(r) == r \in {"corrupt: line", "corrupt: data", "corrupt: table",
                       "corrupt: columns", "corrupt: instrument", "corrupt: cubes"}

\* a faulty null test, np.any in place of np.all: one sample at -200 is
\* enough to call the frame null
FrameHasNull(f, selected_ext, file_step) ==
    \E y \in Range0(At(f.ext, selected_ext).shape[2]) :
        \E x \in Range0(At(f.ext, selected_ext).shape[3]) :
            At(f.ext, selected_ext).data[file_step][y][x] = NullValue

\* np.all( section[file_step,:,:] == -200 )
FrameIsNull(f, selected_ext, file_step) ==
    \A y \in Range0(At(f.ext, selected_ext).shape[2]) :
        \A x \in Range0(At(f.ext, selected_ext).shape[3]) :
            At(f.ext, selected_ext).data[file_step][y][x] = NullValue

\* a faulty loop body, valid_steps.insert( 0, ... ) in place of append: the
\* frames of a file come out in descending step order
RECURSIVE FileValidStepsRev(_, _, _, _, _)
FileValidStepsRev(f, file_no, selected_ext, keep_null, file_step) ==
    IF file_step >= At(f.ext, selected_ext).shape[1]
    THEN <<>>
    ELSE FileValidStepsRev(f, file_no, selected_ext, keep_null, file_step + 1)
         \o (IF keep_null \/ ~FrameIsNull(f, selected_ext, file_step)
             THEN << <<file_no, file_step>> >>
             ELSE <<>>)

\* the frames of one accepted file that the scan labels valid, in step order
RECURSIVE FileValidSteps(_, _, _, _, _)
FileValidSteps(f, file_no, selected_ext, keep_null, file_step) ==
    IF file_step >= At(f.ext, selected_ext).shape[1]
    THEN <<>>
    ELSE (IF keep_null \/ ~FrameIsNull(f, selected_ext, file_step)
          THEN << <<file_no, file_step>> >>
          ELSE <<>>)
         \o FileValidSteps(f, file_no, selected_ext, keep_null, file_step + 1)

\* ------------------------------------------------ the lazy valid-step scan
\* The loop of _prepare_valid_steps from file number file_no on.  acc holds
\* the valid steps found, the hub, the warnings and the exception that ended
\* the loop ("" while none has).
RECURSIVE ScanFiles(_, _)
ScanFiles(file_no, acc) ==
    IF file_no >= Len(arg.files) \/ acc.exc # ""
    THEN acc
    ELSE LET Checked(f, r, opened) ==
                IF r = "ok"
                THEN [acc EXCEPT !.hub = opened,
                        !.valid = @ \o FileValidSteps(f, file_no, cube.selected_ext,
                                                      arg.keep_null, 0)]
                ELSE IF IsCorrupt(r)
                THEN [acc EXCEPT !.hub = opened,
                        !.warned = @ \cup {<<"corrupt", file_no>>}]
                ELSE [acc EXCEPT !.hub = opened, !.exc = r]
             Opened(f) ==
                Checked(f, CheckIntegrity(f, arg.line, cube.selected_ext, cube.n_ext),
                        HubOpen(acc.hub, file_no))
         IN  ScanFiles(file_no + 1, Opened(FileAt(file_no)))

\* A machine state st is the record of the variables a method may change,
\* with the exception that is propagating ("" when none is).
Machine == [cube |-> cube, ico |-> ico, hub |-> hub, warned |-> warned,
            runs |-> runs, exc |-> ""]

Entered(st, loader) == [st EXCEPT !.runs[loader] = @ + 1]

\* np.array( valid_steps ): a list of pairs gives a two-dimensional array,
\* the empty list a one-dimensional array of length 0
NpArray(rows) == [ndim |-> IF Len(rows) = 0 THEN 1 ELSE 2, rows |-> rows]

\* iris_data_cube._prepare_valid_steps
PrepareValidSteps(st0) ==
    LET Assign(st, acc, last, sel) ==
            LET n == Len(acc.valid)
                w == IF Len(acc.valid) = 0
                     THEN acc.warned \cup {<<"empty">>}
                     ELSE acc.warned
                set == [st.cube EXCEPT !.valid_steps = Some(NpArray(acc.valid)),
                                       !.n_steps = Some(Len(acc.valid))]
            IN  IF acc.exc # ""
                THEN [st EXCEPT !.hub = acc.hub, !.warned = acc.warned, !.exc = acc.exc]
                ELSE IF sel >= Len(last.ext)
                THEN [st EXCEPT !.hub = acc.hub, !.warned = w, !.cube = set,
                                !.exc = "IndexError"]
                ELSE IF ~At(last.ext, sel).hasShape
                THEN [st EXCEPT !.hub = acc.hub, !.warned = w, !.cube = set,
                                !.exc = "AttributeError"]
                ELSE [st EXCEPT !.hub = acc.hub, !.warned = w,
                        !.cube = [set EXCEPT !.shape =
                            Some(<<n>> \o SubSeq(At(last.ext, sel).shape, 2,
                                                 Len(At(last.ext, sel).shape)))]]
    IN  Assign(Entered(st0, "valid_steps"),
               ScanFiles(0, [valid |-> <<>>, hub |-> st0.hub,
                             warned |-> st0.warned, exc |-> ""]),
               FileAt(Len(arg.files) - 1),
               st0.cube.selected_ext)

\* a faulty __getattribute__ for n_steps that runs the scan on every access
GetNStepsAlways(st) ==
    IF st.exc = "" THEN PrepareValidSteps(st) ELSE st

\* __getattribute__ for _valid_steps, n_steps and shape: each runs the scan
\* when its own attribute is None
GetValidSteps(st) ==
    IF st.exc = "" /\ IsNone(st.cube.valid_steps) THEN PrepareValidSteps(st) ELSE st
GetNSteps(st) ==
    IF st.exc = "" /\ IsNone(st.cube.n_steps) THEN PrepareValidSteps(st) ELSE st
GetShape(st) ==
    IF st.exc = "" /\ IsNone(st.cube.shape) THEN PrepareValidSteps(st) ELSE st

\* ------------------------------------------------------- primary headers
\* str.strip() on a string of characters
RECURSIVE LStrip(_)
LStrip(str) == IF Len(str) > 0 /\ Head(str) = " " THEN LStrip(Tail(str)) ELSE str
RECURSIVE RStrip(_)
RStrip(str) ==
    IF Len(str) > 0 /\ str[Len(str)] = " "
    THEN RStrip(SubSeq(str, 1, Len(str) - 1))
    ELSE str
Strip(str) == LStrip(RStrip(str))

\* dict( first_file[0].header ): the cards of the primary header, the
\* blank-named card included
HeaderDict(f) ==
    [k \in {"INSTRUME", "STARTOBS", "XCEN", "SAA", "NAXIS", ""} |->
        CASE k = "INSTRUME" -> f.header.INSTRUME
          [] k = "STARTOBS" -> f.header.STARTOBS
          [] k = "XCEN"     -> f.header.XCEN
          [] k = "SAA"      -> f.header.SAA
          [] k = "NAXIS"    -> f.header.NAXIS
          [] OTHER          -> <<>>]

\* del d[key]
DictDel(d, key) == [k \in (DOMAIN d) \ {key} |-> d[k]]
\* d[key] = v
DictSet(d, key, v) == (key :> v) @@ d

\* iris_data_cube._prepare_primary_headers: the attribute is assigned first
\* and the dictionary it holds is then changed in place
PreparePrimaryHeaders(st0) ==
    LET Cleaned(d1) == IF "" \in DOMAIN d1 THEN DictDel(d1, "") ELSE d1
        Adjusted(d0) ==
            Cleaned(DictSet(DictSet(d0, "SAA", Strip(d0["SAA"])), "NAXIS", 2))
        Assign(st, d) ==
            IF "STARTOBS" \notin DOMAIN d \/ d["STARTOBS"].text = "blank"
            THEN [st EXCEPT !.cube.primary_headers = Some(d), !.exc = "ValueError"]
            ELSE [st EXCEPT !.cube.primary_headers =
                                Some(DictSet(d, "DATE_OBS", d["STARTOBS"]))]
    IN  Assign([Entered(st0, "primary") EXCEPT !.hub = HubOpen(@, 0)],
               Adjusted(HeaderDict(FileAt(0))))

GetPrimaryHeaders(st) ==
    IF st.exc = "" /\ IsNone(st.cube.primary_headers)
    THEN PreparePrimaryHeaders(st)
    ELSE st

\* ------------------------------------------------- time-specific headers
\* utils.date.to_Tformat( date ): the text keeps milliseconds
ToTformat(t) == DateStr(t - (t % 1000))

\* iris_data_cube._get_valid_steps( file_no ): column 1 of the rows whose
\* column 0 is file_no
RECURSIVE StepsOfFile(_, _)
StepsOfFile(rows, file_no) ==
    IF Len(rows) = 0 THEN <<>>
    ELSE (IF Head(rows)[1] = file_no THEN <<Head(rows)[2]>> ELSE <<>>)
         \o StepsOfFile(Tail(rows), file_no)

\* np.unique( rows[:,0] ) from file number file_no on: ascending, no repeats
RECURSIVE UniqueFiles(_, _)
UniqueFiles(rows, file_no) ==
    IF file_no >= Len(arg.files) THEN <<>>
    ELSE (IF \E i \in 1 .. Len(rows) : rows[i][1] = file_no
          THEN <<file_no>> ELSE <<>>)
         \o UniqueFiles(rows, file_no + 1)

\* faulty variant: the rows of the whole table, valid or not
PickRowsAll(table, steps) ==
    [exc |-> "", v |-> table]

\* [ table[i] for i in steps ]: the rows of the decoded table at the given
\* file steps; IndexError when a step has no row
PickRows(table, steps) ==
    IF \E i \in 1 .. Len(steps) : steps[i] < 0 \/ steps[i] >= Len(table)
    THEN [exc |-> "IndexError", v |-> <<>>]
    ELSE [exc |-> "", v |-> [i \in 1 .. Len(steps) |-> At(table, steps[i])]]

\* the loop of _prepare_time_specific_headers over the files with valid steps
RECURSIVE CollectRows(_, _, _)
CollectRows(file_numbers, rows, acc) ==
    IF Len(file_numbers) = 0 \/ acc.exc # ""
    THEN acc
    ELSE LET Add(file_no, picked) ==
                IF picked.exc # ""
                THEN [acc EXCEPT !.hub = HubOpen(@, file_no), !.exc = picked.exc]
                ELSE [acc EXCEPT !.hub = HubOpen(@, file_no),
                                 !.headers = @ \o picked.v]
         IN  CollectRows(Tail(file_numbers), rows,
                Add(Head(file_numbers),
                    PickRows(TableRows(At(arg.files, Head(file_numbers))),
                             StepsOfFile(rows, Head(file_numbers)))))

\* one row with its DATE_OBS = STARTOBS + TIME
WithDateObs(row, startobs) ==
    [TIME |-> row.TIME, EXPTIMES |-> row.EXPTIMES, XCENIX |-> row.XCENIX,
     DATE_OBS |-> ToTformat(startobs + row.TIME)]

\* iris_data_cube._prepare_time_specific_headers
PrepareTimeSpecificHeaders(st0) ==
    LET Dated(st2, headers, startobs) ==
            IF st2.exc # "" THEN st2
            ELSE IF startobs.text # "date"
            THEN [st2 EXCEPT !.exc = "ValueError"]
            ELSE [st2 EXCEPT !.cube.time_specific_headers =
                    Some([i \in 1 .. Len(headers) |->
                            WithDateObs(headers[i], startobs.t)])]
        WithPrimary(st2, headers) ==
            Dated(st2, headers,
                  IF st2.exc # "" THEN Blank
                  ELSE Val(st2.cube.primary_headers)["STARTOBS"])
        Collected(st, acc) ==
            WithPrimary(GetPrimaryHeaders([st EXCEPT !.hub = acc.hub, !.exc = acc.exc]),
                        acc.headers)
        Indexed(st) ==
            IF st.exc # "" THEN st
            ELSE IF Val(st.cube.valid_steps).ndim # 2
            THEN [st EXCEPT !.exc = "IndexError"]
            ELSE Collected(st,
                    CollectRows(UniqueFiles(Val(st.cube.valid_steps).rows, 0),
                                Val(st.cube.valid_steps).rows,
                                [headers |-> <<>>, hub |-> st.hub, exc |-> ""]))
    IN  Indexed(GetValidSteps(Entered(st0, "time_specific")))

GetTimeSpecificHeaders(st) ==
    IF st.exc = "" /\ IsNone(st.cube.time_specific_headers)
    THEN PrepareTimeSpecificHeaders(st)
    ELSE st

\* ------------------------------------------------- line-specific headers
\* iris_data_cube._prepare_line_specific_headers
PrepareLineSpecificHeaders(st0) ==
    LET Assign(st, f, w) ==
            IF ~HasTdesc(f, w)
            THEN [st EXCEPT !.exc = "KeyError"]
            ELSE [st EXCEPT !.cube.line_specific_headers =
                    Some([WAVENAME |-> f.header.TDESC[w],
                          OWN |-> st.cube.selected_ext > 0])]
    IN  Assign([Entered(st0, "line_specific") EXCEPT !.hub = HubOpen(@, 0)],
               FileAt(0),
               st0.cube.selected_ext - st0.cube.first_data_ext + 1)

\* __getattribute__ reads the attribute before it decides: on an sji_cube,
\* whose constructor deleted it, that read raises AttributeError
GetLineSpecificHeaders(st) ==
    IF st.exc # "" THEN st
    ELSE IF "line_specific_headers" \in st.cube.deleted
    THEN [st EXCEPT !.exc = "AttributeError"]
    ELSE IF IsNone(st.cube.line_specific_headers)
    THEN PrepareLineSpecificHeaders(st)
    ELSE st

\* ------------------------------------------------------ combined headers
\* faulty variant: the primary headers' values win over the step's
CombinePrimaryFirst(primary, t_header) ==
    LET Adjusted(d) ==
            DictSet(DictSet(DictSet(d, "XCEN", d["XCENIX"]),
                            "CRVAL1", d["XCENIX"]), "EXPTIME", d["EXPTIMES"])
    IN  Adjusted(primary @@ t_header)

\* dict( list(primary.items()) + list(t_header.items()) ) with the manual
\* adjustments of sji_cube._prepare_combined_headers
Combine(primary, t_header) ==
    LET Adjusted(d) ==
            DictSet(DictSet(DictSet(d, "XCEN", d["XCENIX"]),
                            "CRVAL1", d["XCENIX"]), "EXPTIME", d["EXPTIMES"])
    IN  Adjusted(t_header @@ primary)

\* sji_cube._prepare_combined_headers; on the base class
\* iris_data_cube._prepare_combined_headers raises NotImplementedError
PrepareCombinedHeaders(st0) ==
    LET Assign(st3, ts, primary, n) ==
            LET merged == [i \in 1 .. Len(ts) |-> ts[i] @@ primary]
            IN  IF n > Len(ts)
                THEN [st3 EXCEPT !.cube.headers = Some(merged), !.exc = "IndexError"]
                ELSE [st3 EXCEPT !.cube.headers =
                        Some([i \in 1 .. Len(ts) |->
                                IF i <= n THEN Combine(primary, ts[i]) ELSE merged[i]])]
        Counted(st3) ==
            IF st3.exc # "" THEN st3
            ELSE Assign(st3, Val(st3.cube.time_specific_headers),
                        Val(st3.cube.primary_headers), Val(st3.cube.n_steps))
    IN  IF arg.cls # "sji" THEN [st0 EXCEPT !.exc = "NotImplementedError"]
        ELSE Counted(GetNSteps(GetPrimaryHeaders(GetTimeSpecificHeaders(
                        Entered(st0, "combined")))))

GetHeaders(st) ==
    IF st.exc = "" /\ IsNone(st.cube.headers) THEN PrepareCombinedHeaders(st) ELSE st

\* ------------------------------------------------- coordinate adapter
DecMul(a, b) == Dec(a.m * b.m, a.e + b.e)

\* unit conversions of utils/coordinates.py
UNIT_DEC_ARCSEC == 3600
UNIT_M_NM == Dec(1, 10)

NoBounds == <<None, None, None, None>>
Bounds(x0, x1, y0, y1) == <<Some(x0), Some(x1), Some(y0), Some(y1)>>

\* WCS( header ): the transform the engine builds from the header's fields
Wcs(header, cdelt3) ==
    [crpix |-> <<header.CRPIX1, header.CRPIX2, header.CRPIX3>>,
     crval |-> <<header.CRVAL1, header.CRVAL2, header.CRVAL3>>,
     cdelt |-> <<Dec(header.CDELT1, 0), Dec(header.CDELT2, 0), cdelt3>>]

\* wcs.all_pix2world( [[x, y, t]], 1 )[:, :2]: the first two world
\* coordinates of a pixel given in the 1-based convention
AllPix2World(wcs, p) ==
    [i \in 1 .. 2 |->
        Dec(wcs.crval[i] + wcs.cdelt[i].m * (p[i] - wcs.crpix[i]), wcs.cdelt[i].e)]

\* WCS( header ) raises for a projection code the engine does not know
WcsAccepts(header) == header.CTYPE1 # "HPLN-XXX"

\* iris_coordinates.__init__( header, mode, bounds ): the adapter it leaves
\* (None when it raises), the caller's header after the call, and the
\* exception
IcoNew(header, mode, bounds) ==
    LET Left(o, h, exc) == [ico |-> o, header |-> h, exc |-> exc]
        Moded(h, wcs) ==
            IF mode \notin {"sji", "raster"}
            THEN Left(None, h, "ValueError")
            ELSE Left(Some([wcs |-> wcs, mode |-> mode,
                            conversion_factor |->
                                IF mode = "sji"
                                THEN <<Dec(UNIT_DEC_ARCSEC, 0), Dec(UNIT_DEC_ARCSEC, 0)>>
                                ELSE <<UNIT_M_NM, Dec(UNIT_DEC_ARCSEC, 0)>>,
                            xmin |-> bounds[1], xmax |-> bounds[2],
                            ymin |-> bounds[3], ymax |-> bounds[4],
                            cropped |-> ~(\E i \in 1 .. 4 : IsNone(bounds[i])),
                            bounds |-> None]),
                      h, "")
        Patched(h) ==
            IF WcsAccepts(h)
            THEN Moded([h EXCEPT !.CDELT3 = Dec(0, 0)], Wcs(h, h.CDELT3))
            ELSE Left(None, h, "InvalidTransformError")
    IN  IF header.CDELT3.m = 0
        THEN Patched([header EXCEPT !.CDELT3 = Dec(1, 0 - 10)])
        ELSE IF WcsAccepts(header)
        THEN Moded(header, Wcs(header, header.CDELT3))
        ELSE Left(None, header, "InvalidTransformError")

\* the adapter iris_coordinates( header, mode, bounds ) leaves; <<>> when it
\* raises
IcoInit(header, mode, bounds) == IcoNew(header, mode, bounds).ico

\* iris_coordinates.set_bounds( bounds )
IcoSetBounds(o, bounds) == [o EXCEPT !.bounds = Some(bounds)]

\* a faulty shape test that looks at the two leading columns only
ShapeOkWide(c) ==
    \/ c.ndim = 1 /\ Len(c.v) >= 2
    \/ c.ndim = 2 /\ \A i \in 1 .. Len(c.v) : Len(c.v[i]) >= 2

\* A coordinate array: ndim 1 with v a tuple of numbers, or ndim 2 with v a
\* tuple of rows.
Pair(x, y) == [ndim |-> 1, v |-> <<x, y>>]
ShapeOk(c) ==
    \/ c.ndim = 1 /\ Len(c.v) = 2
    \/ c.ndim = 2 /\ \A i \in 1 .. Len(c.v) : Len(c.v[i]) = 2

\* iris_coordinates.pix2coords( timestep, pixel_coordinates ); engine is the
\* number of calls the transform engine received
IcoPix2Coords(o, timestep, pixel_coordinates) ==
    IF ~ShapeOk(pixel_coordinates)
    THEN [exc |-> "ValueError", val |-> <<>>, engine |-> 0]
    ELSE LET rows == IF pixel_coordinates.ndim = 1
                     THEN <<pixel_coordinates.v>>
                     ELSE pixel_coordinates.v
             off == IF o.cropped THEN <<Val(o.xmin), Val(o.ymin)>> ELSE <<0, 0>>
             solar == [i \in 1 .. Len(rows) |->
                         LET w == AllPix2World(o.wcs,
                                    <<rows[i][1] + off[1], rows[i][2] + off[2], timestep>>)
                         IN  <<DecMul(w[1], o.conversion_factor[1]),
                               DecMul(w[2], o.conversion_factor[2])>>]
         IN  [exc |-> "",
              val |-> IF pixel_coordinates.ndim = 1 THEN solar[1] ELSE solar,
              engine |-> 1]

RECURSIVE Pow10(_)
Pow10(n) == IF n = 0 THEN 1 ELSE 10 * Pow10(n - 1)

\* The quotient of two numbers is a fraction n / d with d > 0.
Frac(n, d) == IF d < 0 THEN [n |-> 0 - n, d |-> 0 - d] ELSE [n |-> n, d |-> d]
\* a / b for decimals a and b
DecDiv(a, b) ==
    IF a.e >= b.e
    THEN Frac(a.m * Pow10(a.e - b.e), b.m)
    ELSE Frac(a.m, b.m * Pow10(b.e - a.e))
\* ( f - k ) / b for a fraction f, an integer k and a decimal b
FracOffDiv(f, k, b) ==
    IF b.e >= 0
    THEN Frac(f.n - k * f.d, f.d * b.m * Pow10(b.e))
    ELSE Frac((f.n - k * f.d) * Pow10(0 - b.e), f.d * b.m)
\* f + k for a fraction f and an integer k
FracAdd(f, k) == Frac(f.n + k * f.d, f.d)

\* np.round( f ).astype( np.int ): the nearest integer, the even one of the
\* two when f lies halfway
NpRound(f) ==
    LET q == f.n \div f.d
        r == f.n % f.d
    IN  IF 2 * r < f.d THEN q
        ELSE IF 2 * r > f.d THEN q + 1
        ELSE IF q % 2 = 0 THEN q ELSE q + 1

\* a faulty inverse transform that takes the pixels in the 0-based
\* convention
AllWorld2PixZeroBased(wcs, w) ==
    [i \in 1 .. 2 |->
        FracAdd(FracOffDiv(w[i], wcs.crval[i], wcs.cdelt[i]), wcs.crpix[i] - 1)]

\* wcs.all_world2pix( [[wx, wy, t]], 1 )[:, :2]: the first two pixel
\* coordinates, in the 1-based convention, of a world point; the time
\* coordinate t of the step does not bear on them
AllWorld2Pix(wcs, w) ==
    [i \in 1 .. 2 |->
        FracAdd(FracOffDiv(w[i], wcs.crval[i], wcs.cdelt[i]), wcs.crpix[i])]

\* iris_coordinates.coords2pix( timestep, solar_coordinates, round_pixels );
\* the engine is called once for the time coordinate of the step and once
\* for the inverse transform
IcoCoords2Pix(o, timestep, solar_coordinates, round_pixels) ==
    IF ~ShapeOk(solar_coordinates)
    THEN [exc |-> "ValueError", val |-> <<>>, engine |-> 0]
    ELSE LET rows == IF solar_coordinates.ndim = 1
                     THEN <<solar_coordinates.v>>
                     ELSE solar_coordinates.v
             off == IF o.cropped THEN <<Val(o.xmin), Val(o.ymin)>> ELSE <<0, 0>>
             pixel == [i \in 1 .. Len(rows) |->
                         LET px == AllWorld2Pix(o.wcs,
                                    <<DecDiv(rows[i][1], o.conversion_factor[1]),
                                      DecDiv(rows[i][2], o.conversion_factor[2])>>)
                         IN  [k \in 1 .. 2 |->
                                IF round_pixels
                                THEN NpRound(FracAdd(px[k], 0 - off[k]))
                                ELSE FracAdd(px[k], 0 - off[k])]]
         IN  [exc |-> "",
              val |-> IF solar_coordinates.ndim = 1 THEN pixel[1] ELSE pixel,
              engine |-> 2]

\* --------------------------------------------------------- NumPy helpers
\* np.delete( array, steps, axis=0 ): the rows whose position is not among
\* steps, in their order; all of steps are removed together
RECURSIVE DeleteFrom(_, _, _)
DeleteFrom(rows, steps, pos) ==
    IF Len(rows) = 0 THEN <<>>
    ELSE (IF pos \in steps THEN <<>> ELSE <<Head(rows)>>)
         \o DeleteFrom(Tail(rows), steps, pos + 1)
\* a faulty deletion that removes the steps one after the other, smallest
\* first, each position counted in the rows left by the deletions before it
RECURSIVE DeleteInTurn(_, _)
DeleteInTurn(rows, steps) ==
    IF steps = {} THEN rows
    ELSE LET s == CHOOSE x \in steps : \A y \in steps : x <= y
         IN  DeleteInTurn(DeleteFrom(rows, {s}, 0), steps \ {s})
NpDeleteInTurn(array, steps) == [array EXCEPT !.rows = DeleteInTurn(@, steps)]
NpDelete(array, steps) == [array EXCEPT !.rows = DeleteFrom(@, steps, 0)]

\* A selector of one axis: an integer, a list of integers or a slice whose
\* start and stop may be None.
IntSel(i) == [kind |-> "int", i |-> i]
ListSel(l) == [kind |-> "list", l |-> l]
SliceSel(start, stop) == [kind |-> "slice", start |-> start, stop |-> stop]
FullSlice == SliceSel(None, None)

\* the positions a slice with non-negative start and stop takes from an
\* axis of the given length
SliceIndices(sel, length) ==
    LET lo == IF IsNone(sel.start) THEN 0 ELSE Min(Val(sel.start), length)
        hi == IF IsNone(sel.stop) THEN length ELSE Min(Val(sel.stop), length)
    IN  [i \in 1 .. Max(hi - lo, 0) |-> lo + i - 1]

\* the positions a selector takes from an axis of the given length;
\* IndexError when an integer lies outside the axis
AxisIndices(sel, length) ==
    CASE sel.kind = "slice" -> [exc |-> "", v |-> SliceIndices(sel, length)]
      [] sel.kind = "int" ->
            IF sel.i \in Range0(length)
            THEN [exc |-> "", v |-> <<sel.i>>]
            ELSE [exc |-> "IndexError", v |-> <<>>]
      [] OTHER ->
            IF \A i \in 1 .. Len(sel.l) : sel.l[i] \in Range0(length)
            THEN [exc |-> "", v |-> sel.l]
            ELSE [exc |-> "IndexError", v |-> <<>>]

\* frame[ ys, xs ] for tuples of positions
SubImage(frame, ys, xs) ==
    [i \in 1 .. Len(ys) |-> [j \in 1 .. Len(xs) |-> frame[ys[i]][xs[j]]]]

\* ------------------------------------------------------- step removal
\* a faulty _remove_steps that deletes the rows and leaves n_steps and shape
\* as they were
RemoveStepsStaleCount(st0, steps) ==
    LET Indexed(st) ==
            IF st.exc # "" THEN st
            ELSE [st EXCEPT !.cube.valid_steps =
                                Some(NpDelete(Val(st.cube.valid_steps), steps))]
    IN  Indexed(GetValidSteps(st0))

\* faulty variant: the removal drops the combined headers it finds loaded
RemoveStepsForgetsCombined(st0, steps) ==
    LET Reloaded(st3) ==
            IF IsNone(st3.cube.time_specific_headers)
            THEN st3
            ELSE PrepareTimeSpecificHeaders(st3)
        Reshaped(st2) ==
            IF st2.exc # "" THEN st2
            ELSE Reloaded([st2 EXCEPT !.cube.headers = None,
                                      !.cube.shape =
                            Some(<<Val(st2.cube.n_steps)>>
                                 \o SubSeq(Val(st2.cube.shape), 2,
                                           Len(Val(st2.cube.shape))))])
        Deleted(st, deleted) ==
            Reshaped(GetShape([st EXCEPT !.cube.valid_steps = Some(deleted),
                                         !.cube.n_steps = Some(Len(deleted.rows))]))
        Indexed(st) ==
            IF st.exc # "" THEN st
            ELSE Deleted(st, NpDelete(Val(st.cube.valid_steps), steps))
    IN  Indexed(GetValidSteps(st0))

\* iris_data_cube._remove_steps( steps ): steps is a list of global steps
RemoveStepsOp(st0, steps) ==
    LET Reloaded(st3) ==
            IF IsNone(st3.cube.time_specific_headers)
            THEN st3
            ELSE PrepareTimeSpecificHeaders(st3)
        Reshaped(st2) ==
            IF st2.exc # "" THEN st2
            ELSE Reloaded([st2 EXCEPT !.cube.shape =
                            Some(<<Val(st2.cube.n_steps)>>
                                 \o SubSeq(Val(st2.cube.shape), 2,
                                           Len(Val(st2.cube.shape))))])
        Deleted(st, deleted) ==
            Reshaped(GetShape([st EXCEPT !.cube.valid_steps = Some(deleted),
                                         !.cube.n_steps = Some(Len(deleted.rows))]))
        Indexed(st) ==
            IF st.exc # "" THEN st
            ELSE Deleted(st, NpDelete(Val(st.cube.valid_steps), steps))
    IN  Indexed(GetValidSteps(st0))

\* ------------------------------------------------------------- reads
Image(img) == [ndim |-> 2, v |-> img]
Stack(frames) == [ndim |-> 3, v |-> frames]
Raised(st, exc) == [st |-> [st EXCEPT !.exc = exc], val |-> <<>>]
Returned(st, val) == [st |-> st, val |-> val]

\* iris_data_cube.get_image_step( step )
BaseGetImageStep(st0, step) ==
    LET Read(st1, c, row, e) ==
            Returned([st1 EXCEPT !.hub = HubOpen(@, row[1])],
                     Image(SubImage(e.data[row[2]],
                            IF c.cropped
                            THEN SliceIndices(SliceSel(c.ymin, c.ymax), e.shape[2])
                            ELSE SliceIndices(FullSlice, e.shape[2]),
                            IF c.cropped
                            THEN SliceIndices(SliceSel(c.xmin, c.xmax), e.shape[3])
                            ELSE SliceIndices(FullSlice, e.shape[3]))))
        Located(st1, row) ==
            Read(st1, st1.cube, row, At(FileAt(row[1]).ext, st1.cube.selected_ext))
        Indexed(st1) ==
            IF st1.exc # "" THEN Returned(st1, <<>>)
            ELSE IF Val(st1.cube.valid_steps).ndim # 2
            THEN Raised(st1, "IndexError")
            ELSE Located(st1, At(Val(st1.cube.valid_steps).rows, step))
        Counted(st) ==
            IF st.exc # "" THEN Returned(st, <<>>)
            ELSE IF step < 0 \/ step >= Val(st.cube.n_steps)
            THEN Raised(st, "ValueError")
            ELSE Indexed(GetValidSteps(st))
    IN  Counted(GetNSteps(st0))

\* image[image>0] /= exptime
DivideByExptime(img, exptime) ==
    [i \in 1 .. Len(img) |-> [j \in 1 .. Len(img[i]) |->
        IF img[i][j] > 0 THEN img[i][j] \div exptime ELSE img[i][j]]]

\* sji_cube.get_image_step( step, divide_by_exptime )
SjiGetImageStep(st0, step, divide_by_exptime) ==
    LET Divided(r, exptime) ==
            IF r.st.exc # "" THEN r
            ELSE Returned(r.st, Image(DivideByExptime(r.val.v, exptime)))
        Timed(st, ts, n) ==
            IF step >= n \/ step < 0 - n
            THEN Raised(st, "IndexError")
            ELSE Divided(BaseGetImageStep(st, step),
                         ts[IF step >= 0 THEN step + 1 ELSE n + step + 1].EXPTIMES)
        Loaded(st) ==
            IF st.exc # "" THEN Returned(st, <<>>)
            ELSE Timed(st, Val(st.cube.time_specific_headers),
                       Len(Val(st.cube.time_specific_headers)))
    IN  Loaded(GetTimeSpecificHeaders(st0))

\* get_image_step as the cube's class dispatches it
GetImageStepOp(st, step, divide_by_exptime) ==
    IF arg.cls = "sji"
    THEN SjiGetImageStep(st, step, divide_by_exptime)
    ELSE BaseGetImageStep(st, step)

\* a faulty bulk read that hands the caller's slice to the file as it came,
\* without the crop bounds
CropSliceIgnored(sel, lo, hi) == sel

\* the slice __getitem__ hands to the file for one spatial axis of a cropped
\* cube: lo and hi are the crop bounds of that axis
CropSlice(sel, lo, hi) ==
    SliceSel(IF IsNone(sel.start) THEN Some(lo) ELSE Some(Val(sel.start) + lo),
             IF IsNone(sel.stop) THEN Some(hi) ELSE Some(Val(sel.stop) + lo))

\* the frames one file contributes to a bulk read: its rows among the
\* selected rows, in the selection's order
RECURSIVE FileSlices(_, _, _, _, _)
FileSlices(selected, file_no, sel_ext, ys, xs) ==
    IF Len(selected) = 0 THEN <<>>
    ELSE (IF Head(selected)[1] = file_no
          THEN <<SubImage(At(FileAt(file_no).ext, sel_ext).data[Head(selected)[2]],
                          ys, xs)>>
          ELSE <<>>)
         \o FileSlices(Tail(selected), file_no, sel_ext, ys, xs)

\* the loop of __getitem__ over the files of the selected rows
RECURSIVE ReadFiles(_, _, _, _, _)
ReadFiles(file_numbers, selected, sel_ext, i1, i2) ==
    IF Len(file_numbers) = 0 THEN <<>>
    ELSE LET Sliced(e) ==
                FileSlices(selected, Head(file_numbers), sel_ext,
                           SliceIndices(i1, e.shape[2]), SliceIndices(i2, e.shape[3]))
         IN  Sliced(At(FileAt(Head(file_numbers)).ext, sel_ext))
             \o ReadFiles(Tail(file_numbers), selected, sel_ext, i1, i2)

\* a faulty bulk read that opens every file of the list, whichever files
\* the selected steps lie in
OpenWholeList(h, file_numbers) == h \cup Range0(Len(arg.files))

RECURSIVE OpenAll(_, _)
OpenAll(h, file_numbers) ==
    IF Len(file_numbers) = 0 THEN h
    ELSE OpenAll(HubOpen(h, Head(file_numbers)), Tail(file_numbers))

\* iris_data_cube.__getitem__( index ) for an index whose two spatial
\* selectors are slices
GetItemOp(st0, index) ==
    LET Read(st, file_numbers, slices) ==
            IF Len(file_numbers) = 0
            THEN Raised(st, "ValueError")
            ELSE IF Len(slices) = 1
            THEN Returned([st EXCEPT !.hub = OpenAll(@, file_numbers)],
                          Image(slices[1]))
            ELSE Returned([st EXCEPT !.hub = OpenAll(@, file_numbers)],
                          Stack(slices))
        Grouped(st, c, selected, file_numbers) ==
            Read(st, file_numbers,
                 ReadFiles(file_numbers, selected, c.selected_ext,
                           IF c.cropped
                           THEN CropSlice(index[2], Val(c.ymin), Val(c.ymax))
                           ELSE index[2],
                           IF c.cropped
                           THEN CropSlice(index[3], Val(c.xmin), Val(c.xmax))
                           ELSE index[3]))
        Selected(st, selected) ==
            Grouped(st, st.cube, selected, UniqueFiles(selected, 0))
        Picked(st, vs, picked) ==
            IF vs.ndim # 2 THEN Raised(st, "IndexError")
            ELSE IF picked.exc # "" THEN Raised(st, picked.exc)
            ELSE Selected(st, [i \in 1 .. Len(picked.v) |-> At(vs.rows, picked.v[i])])
        Indexed(st) ==
            IF st.exc # "" THEN Returned(st, <<>>)
            ELSE Picked(st, Val(st.cube.valid_steps),
                        AxisIndices(index[1], Len(Val(st.cube.valid_steps).rows)))
    IN  IF Len(index) # 3 THEN Raised(st0, "ValueError")
        ELSE Indexed(GetValidSteps(st0))

\* ---------------------------------------------------------- crop state
\* iris_data_cube._set_bounds( bounds ): bounds = [xmin, xmax, ymin, ymax]
SetBoundsOp(st, bounds) ==
    [st EXCEPT !.cube.cropped = TRUE,
               !.cube.xmin = bounds[1], !.cube.xmax = bounds[2],
               !.cube.ymin = bounds[3], !.cube.ymax = bounds[4],
               !.ico = IcoSetBounds(@, bounds)]

\* a faulty _reset_bounds that clears the flag and leaves the four bounds
ResetFlagOnly(st) == [st EXCEPT !.cube.cropped = FALSE]

\* iris_data_cube._reset_bounds()
ResetBoundsOp(st) ==
    [st EXCEPT !.cube.cropped = FALSE,
               !.cube.xmin = None, !.cube.xmax = None,
               !.cube.ymin = None, !.cube.ymax = None,
               !.ico = IcoSetBounds(@, NoBounds)]

\* ---------------------------------------------------------------- close
\* a faulty close that leaves every file open
CloseNothing(h, file_no) == h

\* iris_data_cube.close()
RECURSIVE CloseFrom(_, _)
CloseFrom(h, file_no) ==
    IF file_no >= Len(arg.files) THEN h
    ELSE CloseFrom(HubClose(h, file_no), file_no + 1)
\* a faulty close that also forgets the valid-step index and its counts
CloseForgetsIndex(st) ==
    [st EXCEPT !.hub = {}, !.cube.valid_steps = None,
               !.cube.n_steps = None, !.cube.shape = None]
CloseOp(st) == [st EXCEPT !.hub = CloseFrom(@, 0)]

\* iris_data_cube.__enter__: returns the cube itself
EnterOp(st) == st

\* iris_data_cube.__exit__ as the with statement calls it when the block is
\* left: with the exception's type, value and traceback (three None when the
\* block ended normally), n_args arguments after self.  The method is
\* declared with self alone, so a call with arguments raises TypeError before
\* its body runs; a call without arguments runs close()
ExitOp(st, n_args) ==
    IF n_args # 0 THEN [st EXCEPT !.exc = "TypeError"] ELSE CloseOp(st)

\* --------------------------------------------------------- construction
\* utils.fits.line2extension( header, line ): the number of the one window
\* whose descriptor contains line, -1 when none or several do
Line2Extension(header, line) ==
    LET hits == {i \in 1 .. Len(header.TDESC) : IsSubstr(line, header.TDESC[i])}
    IN  IF Cardinality(hits) = 1 THEN CHOOSE i \in hits : TRUE ELSE 0 - 1

SetMin(S) == CHOOSE x \in S : \A y \in S : x <= y
SetMax(S) == CHOOSE x \in S : \A y \in S : x >= y

\* the attributes of an instance before its constructor has run
NoCube ==
    [type |-> "", n_ext |-> 0, first_data_ext |-> 0, last_data_ext |-> 0,
     selected_ext |-> 0, n_files |-> 0,
     xmin |-> None, xmax |-> None, ymin |-> None, ymax |-> None,
     cropped |-> FALSE,
     shape |-> None, n_steps |-> None, valid_steps |-> None,
     primary_headers |-> None, time_specific_headers |-> None,
     line_specific_headers |-> None, headers |-> None,
     deleted |-> {}]

ConstructFailed(c, h, exc) ==
    [phase |-> "failed", cube |-> c, ico |-> None, hub |-> h, exc |-> exc]

\* iris_data_cube.__init__( files, line, keep_null ), followed on an
\* sji_cube by the rest of sji_cube.__init__
ConstructOp ==
    LET Ready(h, type, c4, o) ==
            IF IsNone(o)
            THEN ConstructFailed(c4, h, "ValueError")
            ELSE IF arg.cls = "sji" /\ type = "raster"
            THEN ConstructFailed(c4, CloseFrom(h, 0), "ValueError")
            ELSE [phase |-> "ready",
                  cube |-> IF arg.cls = "sji"
                           THEN [c4 EXCEPT !.deleted = {"line_specific_headers"}]
                           ELSE c4,
                  ico |-> o, hub |-> h, exc |-> ""]
        Checked(f, h, type, c3, r) ==
            IF r # "ok"
            THEN ConstructFailed(c3, h, IF IsCorrupt(r) THEN "CorruptFITSException" ELSE r)
            ELSE IF ~HasTdesc(f, c3.selected_ext - c3.first_data_ext + 1)
            THEN ConstructFailed([c3 EXCEPT !.n_files = Len(arg.files)], h, "KeyError")
            ELSE Ready(h, type, [c3 EXCEPT !.n_files = Len(arg.files)],
                       IcoInit(f.wcs, type, NoBounds))
        Chosen(f, h, type, c3) ==
            Checked(f, h, type, c3,
                    CheckIntegrity(f, arg.line, c3.selected_ext, c3.n_ext))
        Selected(f, h, type, c2, l2e) ==
            IF Len(arg.line) = 0
            THEN Chosen(f, h, type, [c2 EXCEPT !.selected_ext = c2.first_data_ext])
            ELSE IF l2e # 0 - 1
            THEN Chosen(f, h, type, [c2 EXCEPT !.selected_ext = l2e])
            ELSE ConstructFailed(c2, CloseFrom(h, 0), "CorruptFITSException")
        Typed(f, h, type, data_cube_extensions) ==
            IF data_cube_extensions = {}
            THEN ConstructFailed([NoCube EXCEPT !.type = type, !.n_ext = Len(f.ext)],
                                 h, "CorruptFITSException")
            ELSE Selected(f, h, type,
                          [NoCube EXCEPT !.type = type, !.n_ext = Len(f.ext),
                                  !.first_data_ext = SetMin(data_cube_extensions),
                                  !.last_data_ext = SetMax(data_cube_extensions)],
                          Line2Extension(f.header, arg.line))
        Opened(f, h) ==
            IF f.header.INSTRUME \notin {"SJI", "SPEC"}
            THEN ConstructFailed(NoCube, h, "CorruptFITSException")
            ELSE Typed(f, h, IF f.header.INSTRUME = "SJI" THEN "sji" ELSE "raster",
                       {i \in Range0(Len(f.ext)) :
                            At(f.ext, i).hasShape /\ Len(At(f.ext, i).shape) = 3})
    IN  Opened(FileAt(0), HubOpen(hub, 0))

\* ----------------------------------------------------------- the inputs
LineNone == <<>>
LineMg == <<"M", "g">>
LineII == <<"I", "I">>

FileLists(kinds) == UNION {[1 .. n -> kinds] : n \in 1 .. MaxFiles}

\* the bounds [xmin, xmax, ymin, ymax] handed to _set_bounds
BoundsChoices == {Bounds(1, NX, 0, NY), Bounds(0, NX - 1, 1, NY)}
\* the pixel pairs [x, y] handed to pix2coords
PixelChoices == {Pair(0, 0), Pair(1, 0), Pair(0, 1)}
\* the pixels handed to pix2coords: every pair [x, y] inside the image, and
\* an array of two pairs
Array(ndim, v) == [ndim |-> ndim, v |-> v]
PixelPairs == {Pair(x, y) : x \in Range0(NX), y \in Range0(NY)}
PixelRows == Array(2, <<<<0, 0>>, <<NX - 1, NY - 1>>>>)
\* what pix2coords of the adapter o returns at the step for the pixels p,
\* as the array coords2pix is handed
Solar(o, step, p) == Array(p.ndim, IcoPix2Coords(o, step, p).val)
\* the arrays handed to the adapter: shapes (2,) and (2,2), which it takes,
\* and shapes (1,), (3,), (2,3), (2,1), () and (1,1,2), which it does not
ArrayCount == 8
Arrays(k) ==
    CASE k = 1 -> Pair(1, 0)
      [] k = 2 -> PixelRows
      [] k = 3 -> Array(1, <<1>>)
      [] k = 4 -> Array(1, <<1, 0, 2>>)
      [] k = 5 -> Array(2, <<<<0, 0, 1>>, <<1, 1, 2>>>>)
      [] k = 6 -> Array(2, <<<<0>>, <<1>>>>)
      [] k = 7 -> Array(0, <<>>)
      [] OTHER -> Array(3, <<<<<<0, 0>>>>>>)
\* the headers handed to the adapter: of an SJI file (CDELT3 = 0) and of a
\* raster file, with a projection code the engine knows or not
IcoHeaders ==
    {[WcsHeader(kind) EXCEPT !.CTYPE1 = c] :
        kind \in {"sji", "ras"}, c \in {"HPLN-TAN", "HPLN-XXX"}}
\* the names read through __getattribute__
AttrNames == {"primary_headers", "valid_steps", "n_steps", "shape",
              "time_specific_headers", "line_specific_headers", "headers"}

NoRet == [op |-> "", arg |-> <<>>, exc |-> "", val |-> <<>>]
Ret(op, a, exc, val) == [op |-> op, arg |-> a, exc |-> exc, val |-> val]

\* sji_cube's constructor hands no line to iris_data_cube's
InitWith(lists, lines, classes) ==
    /\ arg \in [files : lists, line : lines, keep_null : BOOLEAN, cls : classes]
    /\ arg.cls = "sji" => arg.line = LineNone
    /\ phase = "new"
    /\ cube = NoCube
    /\ ico = None
    /\ hub = {}
    /\ warned = {}
    /\ runs = [l \in Loaders |-> 0]
    /\ removals = 0
    /\ ret = NoRet

\* the cubes every operation is tried on: a base cube that keeps the null
\* frames and an SJI cube that drops them
Init ==
    /\ InitWith({<<"sji", "sji_cols">>, <<"sji_blank">>},
                {LineNone}, {"base", "sji"})
    /\ arg.keep_null = (arg.cls = "base")
\* the cubes the scan, the step removal and the header loaders are tried on
InitIndex == InitWith(FileLists({"sji", "sji_null", "sji_cols", "ras", "ras_sji"}),
                      {LineNone, LineMg}, {"base", "sji"})
\* the cubes the reads, the crop and the coordinates are tried on
InitRead == InitWith(FileLists({"sji"}) \cup {<<"sji_blank">>},
                     {LineNone}, {"base", "sji"})

\* ---------------------------------------------------------- the actions
\* what a call leaves behind: the machine state st and the call's record
Commit(st, r) ==
    /\ \A l \in Loaders : st.runs[l] <= MaxRuns
    /\ cube' = st.cube
    /\ ico' = st.ico
    /\ hub' = st.hub
    /\ warned' = st.warned
    /\ runs' = st.runs
    /\ ret' = r
    /\ UNCHANGED <<arg, phase>>

Construct ==
    /\ phase = "new"
    /\ LET Done(r) ==
            /\ phase' = r.phase
            /\ cube' = r.cube
            /\ ico' = IF IsNone(r.ico) THEN None ELSE Val(r.ico)
            /\ hub' = r.hub
            /\ ret' = Ret("__init__", <<>>, r.exc, <<>>)
       IN  Done(ConstructOp)
    /\ UNCHANGED <<arg, warned, runs, removals>>

\* reading an attribute of the cube: cube.<name>
GetAttrOp(st, name) ==
    CASE name = "primary_headers"       -> GetPrimaryHeaders(st)
      [] name = "valid_steps"           -> GetValidSteps(st)
      [] name = "n_steps"               -> GetNSteps(st)
      [] name = "shape"                 -> GetShape(st)
      [] name = "time_specific_headers" -> GetTimeSpecificHeaders(st)
      [] name = "line_specific_headers" -> GetLineSpecificHeaders(st)
      [] OTHER                          -> GetHeaders(st)

GetAttr(name) ==
    /\ phase = "ready"
    /\ LET Done(st) ==
            Commit(st, Ret("getattr", <<name>>, st.exc,
                           IF st.exc = "" THEN st.cube[name] ELSE <<>>))
       IN  Done(GetAttrOp(Machine, name))
    /\ UNCHANGED removals

\* the number of global steps of the cube once the scan has run
StepCount ==
    LET Count(st) == IF st.exc = "" THEN Len(Val(st.cube.valid_steps).rows) ELSE 0
    IN  Count(GetValidSteps(Machine))

\* the rows of the valid-step index once the scan has run
ScannedRows ==
    LET Rows(st) == IF st.exc = "" THEN Val(st.cube.valid_steps).rows ELSE <<>>
    IN  Rows(GetValidSteps(Machine))

\* the call records the index it found (old) and whether the time-specific
\* headers were materialised (loaded)
RemoveSteps(steps) ==
    /\ phase = "ready"
    /\ removals < MaxRemovals
    /\ steps \subseteq Range0(StepCount)
    /\ LET Done(st) ==
            Commit(st, Ret("_remove_steps", <<steps>>, st.exc,
                           [old |-> ScannedRows,
                            loaded |-> ~IsNone(cube.time_specific_headers)]))
       IN  Done(RemoveStepsOp(Machine, steps))
    /\ removals' = removals + 1

GetImageStep(step, divide_by_exptime) ==
    /\ phase = "ready"
    /\ LET Done(r) ==
            Commit(r.st, Ret("get_image_step", <<step, divide_by_exptime>>,
                             r.st.exc, r.val))
       IN  Done(GetImageStepOp(Machine, step, divide_by_exptime))
    /\ UNCHANGED removals

GetItem(index) ==
    /\ phase = "ready"
    /\ LET Done(r) == Commit(r.st, Ret("__getitem__", <<index>>, r.st.exc, r.val))
       IN  Done(GetItemOp(Machine, index))
    /\ UNCHANGED removals

SetBounds(bounds) ==
    /\ phase = "ready"
    /\ Commit(SetBoundsOp(Machine, bounds), Ret("_set_bounds", <<bounds>>, "", <<>>))
    /\ UNCHANGED removals

ResetBounds ==
    /\ phase = "ready"
    /\ Commit(ResetBoundsOp(Machine), Ret("_reset_bounds", <<>>, "", <<>>))
    /\ UNCHANGED removals

Close ==
    /\ phase = "ready"
    /\ Commit(CloseOp(Machine), Ret("close", <<>>, "", <<>>))
    /\ UNCHANGED removals

\* with cube: the entry of the block
Enter ==
    /\ phase = "ready"
    /\ LET Done(st) == Commit(st, Ret("__enter__", <<>>, st.exc, <<>>))
       IN  Done(EnterOp(Machine))
    /\ UNCHANGED removals

\* a call of __exit__ with n_args arguments: three when the with statement
\* makes it as the block is left, by an exception of the body or normally
\* ( exc_type, exc_value, traceback ), none in a direct call cube.__exit__()
Exit(n_args) ==
    /\ phase = "ready"
    /\ LET Done(st) == Commit(st, Ret("__exit__", <<n_args>>, st.exc, <<>>))
       IN  Done(ExitOp(Machine, n_args))
    /\ UNCHANGED removals

\* iris_data_cube.pix2coords( step, pixel_coordinates )
Pix2Coords(step, pixel_coordinates) ==
    /\ phase = "ready"
    /\ LET Done(r) ==
            Commit([Machine EXCEPT !.exc = r.exc],
                   Ret("pix2coords", <<step, pixel_coordinates>>, r.exc, r.val))
       IN  Done(IcoPix2Coords(ico, step, pixel_coordinates))
    /\ UNCHANGED removals

\* iris_data_cube.coords2pix( step, wl_solar_coordinates, round_pixels )
Coords2Pix(step, wl_solar_coordinates, round_pixels) ==
    /\ phase = "ready"
    /\ LET Done(r) ==
            Commit([Machine EXCEPT !.exc = r.exc],
                   Ret("coords2pix", <<step, wl_solar_coordinates, round_pixels>>,
                       r.exc, r.val))
       IN  Done(IcoCoords2Pix(ico, step, wl_solar_coordinates, round_pixels))
    /\ UNCHANGED removals

\* iris_coordinates( header, mode, bounds ) called on its own: the call
\* records the header as the caller finds it afterwards
IcoConstruct ==
    /\ phase = "new"
    /\ LET Done(r) ==
            /\ phase' = IF r.exc = "" THEN "ready" ELSE "failed"
            /\ ico' = IF IsNone(r.ico) THEN None ELSE Val(r.ico)
            /\ ret' = Ret("iris_coordinates", <<>>, r.exc, [header |-> r.header])
       IN  Done(IcoNew(arg.header, arg.mode, arg.bounds))
    /\ UNCHANGED <<arg, cube, hub, warned, runs, removals>>

\* a method of the adapter called on its own: the call records what it
\* returns (out) and how often it called the transform engine (engine)
IcoCall(op, a, r) ==
    /\ phase = "ready"
    /\ ret' = Ret(op, a, r.exc, [out |-> r.val, engine |-> r.engine])
    /\ UNCHANGED <<arg, phase, cube, ico, hub, warned, runs, removals>>

\* the step selectors of a bulk read of a cube with n steps
IndexChoices(n) ==
    {<<ListSel(<<k>>), FullSlice, FullSlice>> : k \in Range0(n)}
    \cup {<<IntSel(k), FullSlice, FullSlice>> : k \in Range0(n)}

Next ==
    \/ Construct
    \/ \E name \in AttrNames : GetAttr(name)
    \/ \E steps \in SUBSET Range0(StepCount) :
            Cardinality(steps) <= 2 /\ RemoveSteps(steps)
    \/ \E step \in (0 - 1) .. StepCount : GetImageStep(step, TRUE)
    \/ \E index \in IndexChoices(StepCount) : GetItem(index)
    \/ \E bounds \in BoundsChoices : SetBounds(bounds)
    \/ ResetBounds
    \/ Close
    \/ \E p \in PixelChoices : Pix2Coords(0, p)

Spec == Init /\ [][Next]_vars

\* the scan, the step removal and the loaders that depend on them
NextIndex ==
    \/ Construct
    \/ \E name \in {"n_steps", "time_specific_headers"} : GetAttr(name)
    \/ \E steps \in SUBSET Range0(StepCount) :
            Cardinality(steps) <= 2 /\ RemoveSteps(steps)

SpecIndex == InitIndex /\ [][NextIndex]_vars

\* the reads, the crop state and the coordinates
NextRead ==
    \/ Construct
    \/ \E steps \in SUBSET Range0(StepCount) :
            Cardinality(steps) = 1 /\ RemoveSteps(steps)
    \/ \E step \in (0 - 1) .. StepCount : GetImageStep(step, TRUE)
    \/ \E index \in IndexChoices(StepCount) : GetItem(index)
    \/ \E bounds \in BoundsChoices : SetBounds(bounds)
    \/ ResetBounds
    \/ \E p \in PixelChoices : Pix2Coords(0, p)

SpecRead == InitRead /\ [][NextRead]_vars

\* the bulk reads with a list of steps as the selector of the first axis
MaxList == 2

\* the lists of 1 .. MaxList global steps of a cube with n steps, in any
\* order and with repeats
ListChoices(n) ==
    {<<ListSel(l), FullSlice, FullSlice>> :
        l \in UNION {[1 .. m -> Range0(n)] : m \in 1 .. MaxList}}

InitList == InitWith(FileLists({"sji"}), {LineNone}, {"base", "sji"})

NextList ==
    \/ Construct
    \/ \E index \in ListChoices(StepCount) : GetItem(index)
    \/ \E bounds \in BoundsChoices : SetBounds(bounds)

SpecList == InitList /\ [][NextList]_vars

\* the constructions: a raster cube built from files whose window
\* descriptors hold the line once ("Mg" in a "ras" file, "II" in a
\* "ras_line" file), twice ("II" in a "ras" file) or not at all, and cubes
\* of either class built on first files __init__ turns down
InitLine ==
    InitWith(FileLists({"ras", "ras_line", "sji", "sji_flat", "sji_cols", "sji_tab",
                        "sji_aia", "sji_text"}),
             {LineNone, LineMg, LineII}, {"base", "sji"})

NextLine ==
    \/ Construct
    \/ \E name \in {"n_steps", "line_specific_headers"} : GetAttr(name)
    \/ Close

SpecLine == InitLine /\ [][NextLine]_vars

\* the opening and closing of files: cubes of one and two files whose
\* steps lie in both files, read and closed in any order
InitOpen ==
    /\ InitWith(FileLists({"sji"}), {LineNone}, {"base", "sji"})
    /\ arg.keep_null = (arg.cls = "base")

NextOpen ==
    \/ Construct
    \/ \E name \in AttrNames : GetAttr(name)
    \/ \E step \in Range0(StepCount), divide_by_exptime \in BOOLEAN :
            GetImageStep(step, divide_by_exptime)
    \/ \E index \in IndexChoices(StepCount) : GetItem(index)
    \/ \E ystop \in 1 .. NY, xstop \in 1 .. NX :
            GetItem(<<IntSel(0), SliceSel(Some(0), Some(ystop)),
                      SliceSel(Some(0), Some(xstop))>>)
    \/ \E bounds \in BoundsChoices : SetBounds(bounds)
    \/ ResetBounds
    \/ Close
    \/ Enter
    \/ \E n_args \in {0, 3} : Exit(n_args)

SpecOpen == InitOpen /\ [][NextOpen]_vars

\* the coordinates of the cube: pixels to world and back, on SJI and raster
\* cubes, cropped and uncropped
InitCoords == InitWith({<<"sji">>, <<"ras">>}, {LineNone}, {"base", "sji"})

NextCoords ==
    \/ Construct
    \/ \E step \in Range0(StepCount), p \in PixelPairs : Pix2Coords(step, p)
    \/ \E step \in Range0(StepCount) : Pix2Coords(step, PixelRows)
    \/ \E step \in Range0(StepCount), round_pixels \in BOOLEAN :
            \E p \in PixelPairs : Coords2Pix(step, Solar(ico, step, p), round_pixels)
    \/ \E step \in Range0(StepCount), round_pixels \in BOOLEAN :
            Coords2Pix(step, Solar(ico, step, PixelRows), round_pixels)
    \/ \E bounds \in BoundsChoices : SetBounds(bounds)
    \/ ResetBounds

SpecCoords == InitCoords /\ [][NextCoords]_vars

\* the coordinate adapter on its own
InitIco ==
    /\ arg \in [header : IcoHeaders, mode : {"sji", "raster", "spectrum"},
                bounds : {NoBounds} \cup BoundsChoices]
    /\ phase = "new"
    /\ cube = NoCube
    /\ ico = None
    /\ hub = {}
    /\ warned = {}
    /\ runs = [l \in Loaders |-> 0]
    /\ removals = 0
    /\ ret = NoRet

NextIco ==
    \/ IcoConstruct
    \/ \E timestep \in 0 .. 1, k \in 1 .. ArrayCount :
            IcoCall("pix2coords", <<timestep, Arrays(k)>>,
                    IcoPix2Coords(ico, timestep, Arrays(k)))
    \/ \E timestep \in 0 .. 1, k \in 1 .. 2, round_pixels \in BOOLEAN :
            IcoCall("coords2pix",
                    <<timestep, Solar(ico, timestep, Arrays(k)), round_pixels>>,
                    IcoCoords2Pix(ico, timestep, Solar(ico, timestep, Arrays(k)),
                                  round_pixels))
    \/ \E timestep \in 0 .. 1, k \in 3 .. ArrayCount, round_pixels \in BOOLEAN :
            IcoCall("coords2pix", <<timestep, Arrays(k), round_pixels>>,
                    IcoCoords2Pix(ico, timestep, Arrays(k), round_pixels))

SpecIco == InitIco /\ [][NextIco]_vars

\* ------------------------------------------------------------ properties
\* the rows of the valid-step index, <<>> while the scan has not run
Rows == IF IsNone(cube.valid_steps) THEN <<>> ELSE Val(cube.valid_steps).rows
FileNumbers == Range0(Len(arg.files))

\* C1: whenever the valid-step index is materialised, whatever removals,
\* crop changes, header loads and close calls came before, n_steps is the
\* number of its rows and shape[0] is n_steps.
IndexCountsAgree ==
    ~IsNone(cube.valid_steps) =>
        /\ ~IsNone(cube.n_steps)
        /\ ~IsNone(cube.shape)
        /\ Val(cube.n_steps) = Len(Rows)
        /\ Val(cube.shape)[1] = Val(cube.n_steps)

\* a cropped cube, closed after a removal that reloaded its headers
IndexCountsAgreeReached ==
    /\ ~IsNone(cube.valid_steps)
    /\ Len(Rows) > 0
    /\ removals > 0
    /\ cube.cropped
    /\ ~IsNone(cube.time_specific_headers)
    /\ hub = {}

\* C2 as the specification states it: after _set_bounds and _reset_bounds
\* calls the adapter's crop state (cropped, xmin, xmax, ymin, ymax) is the
\* cube's.
CropStatesAgree ==
    phase = "ready" =>
        /\ ico.cropped = cube.cropped
        /\ ico.xmin = cube.xmin
        /\ ico.xmax = cube.xmax
        /\ ico.ymin = cube.ymin
        /\ ico.ymax = cube.ymax

\* C3 as the specification states it: on a cube cropped to [x0,x1,y0,y1],
\* pix2coords( step, [0,0] ) returns what the uncropped cube returns for
\* pix2coords( step, [x0,y0] ).
CropShiftsOrigin ==
    (ret.op = "pix2coords" /\ ret.arg[2] = Pair(0, 0) /\ cube.cropped) =>
        ret.val = IcoPix2Coords(Val(IcoInit(FileAt(0).wcs, cube.type, NoBounds)),
                                ret.arg[1],
                                Pair(Val(cube.xmin), Val(cube.ymin))).val

\* the bulk read cube[[k], :, :] of the cube as it is now
BulkRead(k) == GetItemOp(Machine, <<ListSel(<<k>>), FullSlice, FullSlice>>)
\* EXPTIMES of global step k
Exptime(k) == Val(cube.time_specific_headers)[k + 1].EXPTIMES

\* C4: get_image_step( k ) of a valid step k, cropped or not, returns on the
\* base cube the frame of the bulk read cube[[k], :, :]; on the SJI cube it
\* returns that frame with every positive sample divided by the exposure
\* time of step k and every other sample as it is.
ImageStepMatchesBulkRead ==
    (ret.op = "get_image_step" /\ ret.exc = "") =>
        LET bulk == BulkRead(ret.arg[1])
        IN  /\ bulk.st.exc = ""
            /\ bulk.val.ndim = 2
            /\ Len(ret.val.v) = Len(bulk.val.v)
            /\ \A y \in 1 .. Len(bulk.val.v) :
                /\ Len(ret.val.v[y]) = Len(bulk.val.v[y])
                /\ \A x \in 1 .. Len(bulk.val.v[y]) :
                    IF arg.cls = "sji" /\ bulk.val.v[y][x] > 0
                    THEN ret.val.v[y][x] * Exptime(ret.arg[1]) = bulk.val.v[y][x]
                    ELSE ret.val.v[y][x] = bulk.val.v[y][x]

\* a frame of each class read from a cropped cube after a removal
ImageStepMatchesBulkReadReached ==
    /\ ret.op = "get_image_step"
    /\ ret.exc = ""
    /\ cube.cropped
    /\ removals > 0
    /\ arg.cls = "sji"
    /\ \E y \in 1 .. Len(ret.val.v) : \E x \in 1 .. Len(ret.val.v[y]) :
            ret.val.v[y][x] > 0 /\ ret.val.v[y][x] # BulkRead(ret.arg[1]).val.v[y][x]

\* C4 as the specification states it: get_image_step( k ) returns the frame
\* of the bulk read cube[[k], :, :], on the base cube and on the SJI cube.
ImageStepEqualsBulkRead ==
    (ret.op = "get_image_step" /\ ret.exc = "") =>
        ret.val = BulkRead(ret.arg[1]).val

\* C5: _remove_steps( S ) deletes the rows at the positions S of the index it
\* finds, all at once, keeps the other rows in their order, sets n_steps and
\* shape[0] to the old count less |S| and, when the time-specific headers
\* were materialised, leaves them reloaded with one row per remaining step.
RemovalExact ==
    (ret.op = "_remove_steps" /\ ret.exc = "") =>
        LET S == ret.arg[1]
            old == ret.val.old
            kept == {p \in 1 .. Len(old) : (p - 1) \notin S}
        IN  /\ Len(Rows) = Len(old) - Cardinality(S)
            /\ \A p \in kept : Rows[Cardinality({q \in kept : q <= p})] = old[p]
            /\ cube.n_steps = Some(Len(old) - Cardinality(S))
            /\ Val(cube.shape)[1] = Len(old) - Cardinality(S)
            /\ ret.val.loaded =>
                /\ ~IsNone(cube.time_specific_headers)
                /\ Len(Val(cube.time_specific_headers)) = Len(old) - Cardinality(S)

\* two steps that are not the last ones removed from a cube whose
\* time-specific headers were loaded
RemovalExactReached ==
    /\ ret.op = "_remove_steps"
    /\ ret.exc = ""
    /\ ret.val.loaded
    /\ Cardinality(ret.arg[1]) = 2
    /\ 0 \in ret.arg[1]
    /\ Len(ret.val.old) > 3

\* the last call was one that fails only if the scan does
ScanCalled ==
    \/ ret.op = "getattr" /\ ret.arg = <<"n_steps">>
    \/ ret.op = "_remove_steps"

\* the file passed the integrity check of this cube
Passed(file_no) ==
    CheckIntegrity(FileAt(file_no), arg.line, cube.selected_ext, cube.n_ext) = "ok"
\* every sample of frame s of the file's selected extension is -200
AllNull(file_no, s) ==
    LET frame == At(FileAt(file_no).ext, cube.selected_ext).data[s]
    IN  \A y \in DOMAIN frame : \A x \in DOMAIN frame[y] : frame[y][x] = 0 - 200
\* the pairs the scan is to index
Expected ==
    UNION {{<<f, s>> : s \in {t \in Range0(At(FileAt(f).ext, cube.selected_ext).shape[1]) :
                                arg.keep_null \/ ~AllNull(f, t)}} :
           f \in {g \in FileNumbers : Passed(g)}}

\* C6: after the scan the index holds (f, s) exactly when file f passed the
\* integrity check and keep_null is set or frame s of f is not all -200.
ScanIndexExact ==
    (~IsNone(cube.valid_steps) /\ removals = 0) =>
        {Rows[i] : i \in 1 .. Len(Rows)} = Expected

\* a scan that dropped a null frame, kept a partly null one and skipped a file
ScanIndexExactReached ==
    /\ ~IsNone(cube.valid_steps)
    /\ removals = 0
    /\ ~arg.keep_null
    /\ \E f \in FileNumbers : ~Passed(f)
    /\ \E f \in FileNumbers : Passed(f) /\ AllNull(f, 1) /\ <<f, 2>> \in Expected
    /\ Len(Rows) > 1

\* the file's metadata table, where this cube looks for it, has a column
\* count other than its number of header keys
BadColumns(file_no) ==
    LET f == FileAt(file_no)
        tab == cube.n_ext - 2
    IN  /\ tab < Len(f.ext)
        /\ Len(At(f.ext, tab).shape) = 2
        /\ At(f.ext, tab).shape[2] # At(f.ext, tab).nkeys
\* the integrity check of the file returns or raises CorruptFITSException
Scannable(file_no) ==
    LET r == CheckIntegrity(FileAt(file_no), arg.line, cube.selected_ext, cube.n_ext)
    IN  r = "ok" \/ IsCorrupt(r)

\* C7: a file whose table has a column count other than its key count has no
\* row in the index and a warning to its name; no CorruptFITSException leaves
\* the scan, the scan of a list whose other files can be checked raises
\* nothing, and the frames of the other accepted files are indexed.
ColumnMismatchSkipped ==
    \A f \in FileNumbers :
        (phase = "ready" /\ BadColumns(f)) =>
            /\ ~IsCorrupt(ret.exc)
            /\ ret.exc # "CorruptFITSException"
            /\ (ScanCalled /\ \A g \in FileNumbers \ {f} : Scannable(g)) => ret.exc = ""
            /\ ~IsNone(cube.valid_steps) =>
                /\ \A i \in 1 .. Len(Rows) : Rows[i][1] # f
                /\ <<"corrupt", f>> \in warned
                /\ removals = 0 =>
                    \A p \in Expected : p[1] # f => \E i \in 1 .. Len(Rows) : Rows[i] = p

\* a scanned list with such a file and another file whose frames are indexed
ColumnMismatchSkippedReached ==
    /\ ~IsNone(cube.valid_steps)
    /\ \E f \in FileNumbers : BadColumns(f) /\ <<"corrupt", f>> \in warned
    /\ Len(Rows) > 0
    /\ ret.exc = ""

\* C8: the index is strictly ascending in (file number, file step), after
\* the scan and after every removal.
IndexAscending ==
    \A i \in 1 .. (Len(Rows) - 1) :
        \/ Rows[i][1] < Rows[i + 1][1]
        \/ Rows[i][1] = Rows[i + 1][1] /\ Rows[i][2] < Rows[i + 1][2]

\* an index over two files after a removal
IndexAscendingReached ==
    /\ removals > 0
    /\ Len(Rows) > 2
    /\ Rows[1][1] # Rows[Len(Rows)][1]
    /\ Rows[1][1] = Rows[2][1]

\* the file's INSTRUME is not the one of the first file
OtherInstrument(file_no) ==
    FileAt(file_no).header.INSTRUME # FileAt(0).header.INSTRUME

\* C9 as the specification states it: in a list whose other files pass the
\* integrity check, a file whose INSTRUME differs from the first file's is
\* skipped by the scan with a warning, the scan raises nothing, and the file
\* has no row in the index.
OtherInstrumentSkipped ==
    (phase = "ready" /\ ScanCalled
     /\ \A g \in FileNumbers : ~OtherInstrument(g) => Passed(g)) =>
        \A f \in FileNumbers :
            OtherInstrument(f) =>
                /\ ret.exc = ""
                /\ <<"corrupt", f>> \in warned
                /\ \A i \in 1 .. Len(Rows) : Rows[i][1] # f

\* the cache attribute of a loader is materialised
Cached(name) == ~IsNone(cube[name])
\* the step leaves the cache and the loader's run count as they are
Kept(name, loader) ==
    /\ cube'[name] = cube[name]
    /\ runs'[loader] = runs[loader]

\* C10: a loader whose cache is materialised is not entered again by any
\* call other than _remove_steps, the cache keeps its value, and an access to
\* the attribute returns it; the scan counts as cached when _valid_steps,
\* n_steps and shape are all materialised.
LoadOnce ==
    (phase = "ready" /\ ret'.op # "_remove_steps") =>
        /\ Cached("primary_headers") => Kept("primary_headers", "primary")
        /\ Cached("time_specific_headers") => Kept("time_specific_headers", "time_specific")
        /\ Cached("line_specific_headers") => Kept("line_specific_headers", "line_specific")
        /\ Cached("headers") => Kept("headers", "combined")
        /\ (Cached("valid_steps") /\ Cached("n_steps") /\ Cached("shape")) =>
                /\ Kept("valid_steps", "valid_steps")
                /\ Kept("n_steps", "valid_steps")
                /\ Kept("shape", "valid_steps")
        /\ (ret'.op = "getattr" /\ Cached(ret'.arg[1])
            /\ ret'.arg[1] \notin cube.deleted) =>
                /\ ret'.exc = ""
                /\ ret'.val = cube[ret'.arg[1]]
CachedLoadersRest == [][LoadOnce]_vars

\* the time-specific headers read from a closed cube that loaded them once
CachedLoadersRestReached ==
    /\ ret.op = "getattr"
    /\ ret.arg = <<"time_specific_headers">>
    /\ ret.exc = ""
    /\ runs["time_specific"] = 1
    /\ runs["valid_steps"] = 1
    /\ hub = {}
    /\ removals = 0

\* C10 as the specification states it: without a step removal no loader is
\* entered more than once.
LoadersRunOnce ==
    removals = 0 => \A l \in Loaders : runs[l] <= 1

\* C11 as the specification states it: get_image_step(step) with step < 0 or
\* step >= n_steps on a cube whose index is materialised fails with
\* ValueError and returns no frame, on the base cube and on the SJI cube.
ImageStepRangeChecked ==
    (ret.op = "get_image_step" /\ ~IsNone(cube.valid_steps)
     /\ (ret.arg[1] < 0 \/ ret.arg[1] >= Len(Rows))) =>
        /\ ret.exc = "ValueError"
        /\ IsNone(ret.val)

\* C12 as the specification states it: a bulk read whose step selector is a
\* list [k1, ..., kn] of valid global steps returns n frames, and frame i is
\* the frame the bulk read of [ki] alone returns, in whatever order the list
\* names the steps.
ListReadKeepsOrder ==
    (ret.op = "__getitem__" /\ ret.arg[1][1].kind = "list"
     /\ Len(ret.arg[1][1].l) >= 2) =>
        /\ ret.exc = ""
        /\ ret.val.ndim = 3
        /\ Len(ret.val.v) = Len(ret.arg[1][1].l)
        /\ \A i \in 1 .. Len(ret.arg[1][1].l) :
                ret.val.v[i] = BulkRead(ret.arg[1][1].l[i]).val.v

\* the constructor came as far as the line selection: the first file's
\* INSTRUME is SJI or SPEC and it holds a three-dimensional extension
LineSelectionReached ==
    /\ FileAt(0).header.INSTRUME \in {"SJI", "SPEC"}
    /\ \E i \in Range0(Len(FileAt(0).ext)) :
            At(FileAt(0).ext, i).hasShape /\ Len(At(FileAt(0).ext, i).shape) = 3
\* line2extension reports -1 for the line the constructor was given
LineUnresolved ==
    Len(arg.line) > 0 /\ Line2Extension(FileAt(0).header, arg.line) = 0 - 1

\* C13: a construction whose non-empty line matches no window descriptor of
\* the first file or more than one fails with CorruptFITSException: no cube
\* is returned, no coordinate adapter was built, what the constructor
\* assigns after the integrity check (n_files) is not assigned, and no file
\* of the list is left open.
UnresolvedLineFails ==
    (ret.op = "__init__" /\ LineSelectionReached /\ LineUnresolved) =>
        /\ phase = "failed"
        /\ ret.exc = "CorruptFITSException"
        /\ IsNone(ico)
        /\ cube.n_files = 0
        /\ hub = {}

\* a construction that failed on a line found in two window descriptors
UnresolvedLineFailsReached ==
    /\ ret.op = "__init__"
    /\ phase = "failed"
    /\ arg.line = LineII
    /\ Cardinality({i \in 1 .. Len(FileAt(0).header.TDESC) :
                        IsSubstr(arg.line, FileAt(0).header.TDESC[i])}) = 2
    /\ Len(arg.files) = MaxFiles
    /\ hub = {}

\* C14 as the specification states it: on a cube whose first file has a
\* blank STARTOBS, once the primary-header loader has run, the cache
\* primary_headers is still unmaterialised and every access to
\* primary_headers has failed with ValueError.
BlankStartObsLeavesNoCache ==
    (phase = "ready" /\ FileAt(0).header.STARTOBS = Blank /\ runs["primary"] > 0) =>
        /\ IsNone(cube.primary_headers)
        /\ (ret.op = "getattr" /\ ret.arg = <<"primary_headers">>) =>
                ret.exc = "ValueError"

\* C15: close() leaves no file of the cube's list open in the file hub,
\* raises nothing, enters no loader, and leaves the valid-step index,
\* n_steps, shape, every header cache and the crop state of the cube and of
\* its coordinate adapter as they were.
CloseKeeps ==
    (phase = "ready" /\ ret'.op = "close") =>
        /\ ret'.exc = ""
        /\ hub' \cap FileNumbers = {}
        /\ cube' = cube
        /\ ico' = ico
        /\ runs' = runs
CloseKeepsCaches == [][CloseKeeps]_vars

\* a cropped cube of two files, closed after its index and its time-specific
\* headers were loaded
CloseKeepsCachesReached ==
    /\ ret.op = "close"
    /\ Len(arg.files) = 2
    /\ hub = {}
    /\ cube.cropped
    /\ ~IsNone(cube.valid_steps)
    /\ ~IsNone(cube.shape)
    /\ ~IsNone(cube.time_specific_headers)
    /\ ~IsNone(cube.primary_headers)

\* the step needs file f: it runs the valid-step scan or the time-specific
\* header loader, or it reads a step that lies in f
NeedsFile(f) ==
    \/ runs'["valid_steps"] > runs["valid_steps"]
    \/ runs'["time_specific"] > runs["time_specific"]
    \/ /\ ret'.op = "get_image_step"
       /\ ret'.exc = ""
       /\ At(Rows', ret'.arg[1])[1] = f
    \/ /\ ret'.op = "__getitem__"
       /\ ret'.exc = ""
       /\ At(Rows', IF ret'.arg[1][1].kind = "int" THEN ret'.arg[1][1].i
                    ELSE ret'.arg[1][1].l[1])[1] = f

LazyOpen ==
    /\ (ret'.op = "__init__" /\ phase' = "ready") =>
            /\ hub' = {0}
            /\ IsNone(cube'.valid_steps) /\ IsNone(cube'.n_steps) /\ IsNone(cube'.shape)
            /\ IsNone(cube'.primary_headers) /\ IsNone(cube'.time_specific_headers)
            /\ IsNone(cube'.line_specific_headers) /\ IsNone(cube'.headers)
            /\ \A l \in Loaders : runs'[l] = 0
    /\ \A f \in FileNumbers \ {0} : (f \notin hub /\ f \in hub') => NeedsFile(f)
\* C16: a successful construction leaves exactly the first file open and
\* the valid-step index, n_steps, shape and the four header sets
\* unmaterialised, no loader having run; and a step opens a file other than
\* the first only if it runs the valid-step scan or the time-specific header
\* loader or reads a step that lies in that file.
ConstructionOpensFirstOnly == [][LazyOpen]_vars

\* the second file of a closed cube opened again by the read of one of its
\* steps
ConstructionOpensFirstOnlyReached ==
    /\ ret.op \in {"get_image_step", "__getitem__"}
    /\ ret.exc = ""
    /\ hub = {1}
    /\ runs["valid_steps"] = 1
    /\ runs["time_specific"] = 0

\* the crop state of the cube: the flag and the four bounds
CropState(c) == <<c.cropped, c.xmin, c.xmax, c.ymin, c.ymax>>
\* the cube with its crop state blanked
Uncropped(c) ==
    [c EXCEPT !.cropped = FALSE, !.xmin = None, !.xmax = None,
              !.ymin = None, !.ymax = None]

CropOverwrites ==
    /\ (phase = "ready" /\ ret'.op = "_set_bounds") =>
            /\ CropState(cube') = <<TRUE, ret'.arg[1][1], ret'.arg[1][2],
                                    ret'.arg[1][3], ret'.arg[1][4]>>
            /\ ico'.bounds = Some(ret'.arg[1])
    /\ (phase = "ready" /\ ret'.op = "_reset_bounds") =>
            /\ CropState(cube') = <<FALSE, None, None, None, None>>
            /\ ico'.bounds = Some(NoBounds)
    /\ (phase = "ready" /\ ret'.op \in {"_set_bounds", "_reset_bounds"}) =>
            /\ ret'.exc = ""
            /\ Uncropped(cube') = Uncropped(cube)
            /\ runs' = runs
            /\ hub' = hub
\* C17: after _set_bounds( bounds ) the crop state is the flag set and the
\* four bounds given, after _reset_bounds() it is the flag cleared and four
\* None, whatever it was before; both calls leave the valid-step index,
\* n_steps, shape and every header cache as they were and enter no loader.
CropOverwritesOnly == [][CropOverwrites]_vars

\* a crop reset on a cube whose index and headers are loaded
CropOverwritesOnlyReached ==
    /\ ret.op = "_reset_bounds"
    /\ ~cube.cropped
    /\ IsNone(cube.xmin)
    /\ ~IsNone(cube.valid_steps)
    /\ ~IsNone(cube.time_specific_headers)
    /\ ~IsNone(cube.primary_headers)

\* coords2pix returned the pixels p for what pix2coords makes of them
BackFrom(p) ==
    (ret.arg[2].ndim = p.ndim /\ ret.arg[2] = Solar(ico, ret.arg[1], p)) =>
        /\ ret.exc = ""
        /\ ret.val = p.v

\* C18: on an uncropped cube, coords2pix with rounding, called at a valid
\* step with what pix2coords returns at that step for in-bounds integer
\* pixels p (one pair or an array of pairs), raises nothing and returns p.
RoundTripReturnsPixel ==
    (ret.op = "coords2pix" /\ ret.arg[3] /\ ~cube.cropped
     /\ ret.arg[1] \in Range0(StepCount)) =>
        /\ \A p \in PixelPairs : BackFrom(p)
        /\ BackFrom(PixelRows)

\* the round trip of the pixel pair [NX - 1, 1] at step 1 of an uncropped
\* raster cube
RoundTripReturnsPixelReached ==
    /\ ret.op = "coords2pix"
    /\ ret.arg[1] = 1
    /\ ret.arg[3]
    /\ ret.exc = ""
    /\ ~cube.cropped
    /\ cube.type = "raster"
    /\ ret.arg[2].ndim = 1
    /\ ret.arg[2].v = IcoPix2Coords(ico, 1, Pair(NX - 1, 1)).val
    /\ ret.val = <<NX - 1, 1>>

\* C19 as the specification states it: after iris_coordinates( header, ... )
\* was called with a header whose CDELT3 is zero, CDELT3 of the caller's
\* header is zero, whether the constructor returned or raised.
ZeroScaleRestored ==
    (ret.op = "iris_coordinates" /\ arg.header.CDELT3.m = 0) =>
        ret.val.header.CDELT3.m = 0

\* the array's shape is (2,) or (N,2)
PairShaped(c) ==
    \/ c.ndim = 1 /\ Len(c.v) = 2
    \/ c.ndim = 2 /\ \A i \in 1 .. Len(c.v) : Len(c.v[i]) = 2

\* C20: pix2coords and coords2pix of the adapter, handed an array whose
\* shape is neither (2,) nor (N,2), raise ValueError without a call to the
\* transform engine; and a constructor call with a mode other than 'sji' and
\* 'raster' raises and leaves no adapter.
MalformedRejected ==
    /\ (ret.op \in {"pix2coords", "coords2pix"} /\ ~PairShaped(ret.arg[2])) =>
            /\ ret.exc = "ValueError"
            /\ ret.val.engine = 0
    /\ (ret.op = "iris_coordinates" /\ arg.mode \notin {"sji", "raster"}) =>
            /\ ret.exc # ""
            /\ phase = "failed"
            /\ IsNone(ico)

\* coords2pix turned down an array of shape (2,3)
MalformedRejectedReached ==
    /\ ret.op = "coords2pix"
    /\ ret.arg[2].ndim = 2
    /\ Len(ret.arg[2].v) = 2
    /\ Len(ret.arg[2].v[1]) = 3
    /\ ret.exc = "ValueError"

\* C21 as the specification states it: on an SJI cube,
\* get_image_step( step, divide_by_exptime=False ) of a valid step returns
\* the frame the base class's get_image_step returns for that step,
\* undivided.
UndividedOnRequest ==
    (ret.op = "get_image_step" /\ arg.cls = "sji" /\ ret.exc = ""
     /\ ~ret.arg[2]) =>
        ret.val = BaseGetImageStep(Machine, ret.arg[1]).val

\* the first file fits construction: its instrument type is recognised, it
\* holds a three-dimensional extension, the line (if any) names one window,
\* and _check_integrity returns on it
FirstFileFits ==
    LET f == FileAt(0)
    IN  /\ f.header.INSTRUME \in {"SJI", "SPEC"}
        /\ \E i \in Range0(Len(f.ext)) :
               At(f.ext, i).hasShape /\ Len(At(f.ext, i).shape) = 3
        /\ Len(arg.line) = 0 \/ Line2Extension(f.header, arg.line) # 0 - 1
        /\ CheckIntegrity(f, arg.line, cube.selected_ext, cube.n_ext) = "ok"

\* C22 as the specification states it: construction returns a cube only if
\* the first file has a recognised instrument type, a three-dimensional
\* extension and passes the integrity check, and fails with
\* CorruptFITSException in every other case.
ConstructionFailsWithIntegrityError ==
    ret.op = "__init__" =>
        /\ phase = "ready" => FirstFileFits
        /\ ~FirstFileFits => ret.exc = "CorruptFITSException"

\* C30 as the specification states it: a construction that fails leaves the
\* first file closed.
FailedConstructionClosesFirst ==
    (ret.op = "__init__" /\ phase = "failed") => 0 \notin hub

\* row s of the metadata table of file file_no, dated as
\* _prepare_time_specific_headers dates it
TableRowOf(file_no, s) ==
    WithDateObs(At(TableRows(At(arg.files, file_no)), s), StartObs.t)

\* C23: whenever the time-specific header list is materialised, after its
\* first load and after every step removal, it has n_steps entries and entry
\* i is the metadata-table row of the file and the local step that row i of
\* the valid-step index names.
TimeHeadersFollowIndex ==
    Cached("time_specific_headers") =>
        LET ts == Val(cube.time_specific_headers)
        IN  /\ Cached("valid_steps") /\ Cached("n_steps")
            /\ Len(ts) = Val(cube.n_steps)
            /\ Len(ts) = Len(Rows)
            /\ \A i \in 1 .. Len(ts) : ts[i] = TableRowOf(Rows[i][1], Rows[i][2])

\* the list reloaded by a step removal on a cube of two files whose scan had
\* dropped a frame or a file
TimeHeadersFollowIndexReached ==
    /\ Cached("time_specific_headers")
    /\ ret.op = "_remove_steps"
    /\ ret.exc = ""
    /\ runs["time_specific"] = 2
    /\ Len(Rows) >= 2
    /\ Rows[1][1] # Rows[Len(Rows)][1]
    /\ \E i \in 1 .. Len(Rows) : Rows[i][2] # i - 1

\* the call removed at least one step
RemovedSome ==
    ret'.op = "_remove_steps" /\ ret'.exc = "" /\ ret'.arg[1] # {}

\* C24: a step removal leaves a materialised combined-header list as it is,
\* neither invalidated nor recomputed; once a step is removed the list keeps
\* the length n_steps had, which is neither the new n_steps nor the length
\* of the reloaded time-specific list.
RemovalKeepsCombined ==
    (ret'.op = "_remove_steps" /\ Cached("headers")) =>
        /\ Kept("headers", "combined")
        /\ (RemovedSome /\ Len(Val(cube.headers)) = Val(cube.n_steps)) =>
                /\ Len(Val(cube'.headers)) = Val(cube.n_steps)
                /\ Len(Val(cube'.headers)) # Val(cube'.n_steps)
                /\ Cached("time_specific_headers")'
                /\ Len(Val(cube'.headers)) # Len(Val(cube'.time_specific_headers))
                /\ runs'["time_specific"] = runs["time_specific"] + 1
        /\ (RemovedSome /\ Len(Val(cube.headers)) > Val(cube.n_steps)) =>
                Len(Val(cube'.headers)) > Val(cube'.n_steps)

CombinedHeadersStale == [][RemovalKeepsCombined]_vars

\* an SJI cube whose combined headers were loaded before a step was removed
CombinedHeadersStaleReached ==
    /\ ret.op = "_remove_steps"
    /\ ret.exc = ""
    /\ ret.arg[1] # {}
    /\ Cached("headers")
    /\ Cached("time_specific_headers")
    /\ runs["combined"] = 1
    /\ Len(Val(cube.headers)) = Val(cube.n_steps) + Cardinality(ret.arg[1])

\* the value the attribute takes when it is the first one accessed after
\* construction
FirstAccess(name) ==
    GetAttrOp([Machine EXCEPT !.cube = ConstructOp.cube], name).cube[name]
LazyNames ==
    {"valid_steps", "primary_headers", "line_specific_headers",
     "time_specific_headers", "headers"}
\* without a step removal a materialised attribute holds the value of a
\* first access, whatever was accessed before it
OrderIndependent ==
    (phase = "ready" /\ removals = 0) =>
        \A name \in LazyNames : Cached(name) => cube[name] = FirstAccess(name)
\* the access to the line-specific headers leaves the other caches alone
LineAccessAlone ==
    (ret'.op = "getattr" /\ ret'.arg = <<"line_specific_headers">>) =>
        \A name \in LazyNames \ {"line_specific_headers"} : cube'[name] = cube[name]
\* the access to the time-specific headers leaves the valid-step index and
\* the primary headers materialised
TimeAccessLoads ==
    (ret'.op = "getattr" /\ ret'.arg = <<"time_specific_headers">>) =>
        Cached("valid_steps")' /\ Cached("primary_headers")'

\* C25 as the specification states it: without step removal the lazy
\* attributes' values do not depend on the order of their first accesses, an
\* access to the line-specific headers materialises no other attribute, and
\* an access to the time-specific headers materialises the valid-step index
\* and the primary headers.
LoadersOrderIndependent ==
    []OrderIndependent /\ [][LineAccessAlone /\ TimeAccessLoads]_vars

\* C26 as the specification states it: once the scan has run, shape[1:] is
\* the pair of trailing dimensions of the selected extension of a file that
\* passed the integrity check, also when the last file of the list was
\* skipped.
ShapeFromAcceptedFile ==
    (phase = "ready" /\ Cached("shape") /\ \E f \in FileNumbers : Passed(f)) =>
        \E f \in FileNumbers :
            /\ Passed(f)
            /\ Tail(Val(cube.shape)) =
                    Tail(At(FileAt(f).ext, cube.selected_ext).shape)

\* C27 as the specification states it: a scan that finds no valid frame
\* leaves a warning, n_steps = 0 and shape[0] = 0, and the time-specific
\* headers of such a cube are a list of length 0, as they are on a cube
\* emptied by step removal.
EmptyScanUsable ==
    (phase = "ready" /\ Cached("valid_steps") /\ Len(Rows) = 0) =>
        /\ <<"empty">> \in warned \/ removals > 0
        /\ cube.n_steps = Some(0)
        /\ Cached("shape") /\ Val(cube.shape)[1] = 0
        /\ (ret.op = "getattr" /\ ret.arg = <<"time_specific_headers">>) =>
                ret.exc = "" /\ ret.val = Some(<<>>)

\* the positions of one axis a bulk read of the cropped cube takes from the
\* file for the selector sel: lo and hi are the crop bounds of the axis,
\* length is the file's extent
Addressed(sel, lo, hi, length) ==
    LET p == SliceIndices(CropSlice(sel, lo, hi), length)
    IN  {p[i] : i \in 1 .. Len(p)}

\* C28 as the specification states it: a bulk read of a cropped cube with
\* range selectors of non-negative start and stop takes rows of [ymin, ymax)
\* and columns of [xmin, xmax) only, also when a stop lies beyond the
\* cropped extent.
CroppedReadStaysInside ==
    (ret.op = "__getitem__" /\ ret.exc = "" /\ cube.cropped) =>
        /\ Addressed(ret.arg[1][2], Val(cube.ymin), Val(cube.ymax), NY)
                \subseteq Val(cube.ymin) .. Val(cube.ymax) - 1
        /\ Addressed(ret.arg[1][3], Val(cube.xmin), Val(cube.xmax), NX)
                \subseteq Val(cube.xmin) .. Val(cube.xmax) - 1
        /\ Len(ret.val.v[1]) <= Val(cube.xmax) - Val(cube.xmin)

\* C29 as the specification states it: leaving a with-block, normally or by
\* an exception, runs close(), and no file of the cube's list stays open.
WithBlockCloses ==
    (ret.op = "__exit__" /\ ret.arg = <<3>>) =>
        /\ ret.exc = ""
        /\ hub \cap FileNumbers = {}

\* the step loaded the combined headers
CombinedLoaded ==
    /\ runs'["combined"] = runs["combined"] + 1
    /\ ret'.op = "getattr" /\ ret'.arg = <<"headers">> /\ ret'.exc = ""

\* the freshly loaded list, entry for entry against the time-specific list
\* and the primary headers it was merged from
CombinedPrefersTimeSpecific ==
    CombinedLoaded =>
        LET combined == Val(cube'.headers)
            ts == Val(cube'.time_specific_headers)
            primary == Val(cube'.primary_headers)
        IN  /\ ret'.val = cube'.headers
            /\ Len(combined) = Len(ts)
            /\ \A i \in 1 .. Len(ts) :
                /\ \A key \in DOMAIN primary \cap DOMAIN ts[i] :
                        combined[i][key] = ts[i][key]
                /\ "DATE_OBS" \in DOMAIN primary \cap DOMAIN ts[i]
                /\ combined[i]["DATE_OBS"] = ToTformat(StartObs.t + ts[i]["TIME"])

\* C31: when the SJI combined headers are loaded, the list has one mapping
\* per time-specific entry, and in mapping i every key held by both the
\* primary headers and time-specific entry i carries the time-specific
\* value: DATE_OBS is the step's own (STARTOBS plus TIME), not STARTOBS.
CombinedCarriesStepValues == [][CombinedPrefersTimeSpecific]_vars

\* a loaded list of two or more mappings whose last DATE_OBS is not the
\* primary headers' one
CombinedCarriesStepValuesReached ==
    /\ ret.op = "getattr" /\ ret.arg = <<"headers">> /\ ret.exc = ""
    /\ runs["combined"] = 1
    /\ Len(ret.val) = 1 /\ Len(Val(ret.val)) >= 2
    /\ LET last == Val(ret.val)[Len(Val(ret.val))]
       IN  /\ last["DATE_OBS"] # Val(cube.primary_headers)["DATE_OBS"]
           /\ last["DATE_OBS"] = ToTformat(StartObs.t + last["TIME"])

====
